---- MODULE Spec2Model ----
(***************************************************************************)
(* A model of env-guardian-cli's validation core (src/src/core/schema.ts,  *)
(* lines 177-585: formatValidators, coerceValue, validateVariable,         *)
(* validate, isSystemEnvVar, isValid).                                     *)
(*                                                                         *)
(* JavaScript strings are sequences of one-character strings, so that      *)
(* toLowerCase, startsWith, Number(...) and the regular expressions are    *)
(* computed character by character.  An optional value (x | undefined) is  *)
(* a sequence of length 0 (undefined) or 1 (<<x>>).                        *)
(***************************************************************************)
EXTENDS Integers, Sequences, FiniteSets, TLC

\* ------------------------------------------------------------------------
\* Optional values
\* ------------------------------------------------------------------------

None == <<>>

Some(x) == <<x>>

IsSome(o) == o # <<>>

Get(o) == o[1]

\* ------------------------------------------------------------------------
\* Strings
\* ------------------------------------------------------------------------

Digits == {"0", "1", "2", "3", "4", "5", "6", "7", "8", "9"}

UpperLetters == <<"A", "B", "C", "D", "E", "F", "G", "H", "I", "J", "K", "L", "M",
                  "N", "O", "P", "Q", "R", "S", "T", "U", "V", "W", "X", "Y", "Z">>

LowerLetters == <<"a", "b", "c", "d", "e", "f", "g", "h", "i", "j", "k", "l", "m",
                  "n", "o", "p", "q", "r", "s", "t", "u", "v", "w", "x", "y", "z">>

Range(s) == {s[i] : i \in 1..Len(s)}

IsUpper(c) == c \in Range(UpperLetters)

IsLower(c) == c \in Range(LowerLetters)

IsLetter(c) == IsUpper(c) \/ IsLower(c)

LowerChar(c) ==
    IF IsUpper(c)
    THEN LowerLetters[CHOOSE i \in 1..26 : UpperLetters[i] = c]
    ELSE c

\* String.prototype.toLowerCase
ToLowerCase(s) == [i \in 1..Len(s) |-> LowerChar(s[i])]

\* String.prototype.startsWith
StartsWith(s, p) == Len(p) <= Len(s) /\ SubSeq(s, 1, Len(p)) = p

\* String.prototype.slice(n)
Slice(s, n) == SubSeq(s, n + 1, Len(s))

\* Array.prototype.includes on an array of strings
Includes(arr, s) == \E i \in 1..Len(arr) : arr[i] = s

RECURSIVE Join(_, _)
\* Array.prototype.join
Join(arr, sep) ==
    IF arr = <<>> THEN <<>>
    ELSE IF Len(arr) = 1 THEN arr[1]
    ELSE arr[1] \o sep \o Join(Tail(arr), sep)

DigitVal(c) ==
    CASE c = "0" -> 0 [] c = "1" -> 1 [] c = "2" -> 2 [] c = "3" -> 3
      [] c = "4" -> 4 [] c = "5" -> 5 [] c = "6" -> 6 [] c = "7" -> 7
      [] c = "8" -> 8 [] c = "9" -> 9
      [] c \in {"a", "A"} -> 10 [] c \in {"b", "B"} -> 11
      [] c \in {"c", "C"} -> 12 [] c \in {"d", "D"} -> 13
      [] c \in {"e", "E"} -> 14 [] c \in {"f", "F"} -> 15
      [] OTHER -> 99

DigitChar(d) == <<"0", "1", "2", "3", "4", "5", "6", "7", "8", "9">>[d + 1]

AllDigits(s) == \A i \in 1..Len(s) : s[i] \in Digits

RECURSIVE RadixValue(_, _)
\* the value of a digit string in the given radix
RadixValue(s, radix) ==
    IF s = <<>> THEN 0
    ELSE RadixValue(SubSeq(s, 1, Len(s) - 1), radix) * radix + DigitVal(s[Len(s)])

RECURSIVE NatToString(_)
NatToString(n) ==
    IF n < 10 THEN <<DigitChar(n)>>
    ELSE NatToString(n \div 10) \o <<DigitChar(n % 10)>>

IntToString(n) == IF n < 0 THEN <<"-">> \o NatToString(-n) ELSE NatToString(n)

RECURSIVE Pow10(_)
Pow10(k) == IF k = 0 THEN 1 ELSE 10 * Pow10(k - 1)

RECURSIVE NumDigits(_)
\* the number of decimal digits of a natural number (0 has 1)
NumDigits(n) == IF n < 10 THEN 1 ELSE 1 + NumDigits(n \div 10)

RECURSIVE Zeros(_)
Zeros(k) == IF k <= 0 THEN <<>> ELSE <<"0">> \o Zeros(k - 1)

\* ------------------------------------------------------------------------
\* JavaScript numbers.  A finite number is the exact decimal m * 10^e with m
\* free of trailing zeros (0 is m = 0, e = 0; -0 is not told from 0).  This is
\* exact for the comparisons and the printing of numbers written with at most
\* nine significant digits, which the model's inputs are.
\* ------------------------------------------------------------------------

NaN == [kind |-> "nan", m |-> 0, e |-> 0]

Infinity == [kind |-> "inf", m |-> 1, e |-> 0]

NegInfinity == [kind |-> "inf", m |-> -1, e |-> 0]

RECURSIVE Fin(_, _)
Fin(m, e) ==
    IF m = 0 THEN [kind |-> "fin", m |-> 0, e |-> 0]
    ELSE IF m % 10 = 0 THEN Fin(m \div 10, e + 1)
    ELSE [kind |-> "fin", m |-> m, e |-> e]

Abs(n) == IF n < 0 THEN -n ELSE n

Sign(n) == IF n < 0 THEN -1 ELSE IF n = 0 THEN 0 ELSE 1

\* the decimal order of magnitude of a finite non-zero number: 10^(Mag-1) <= |x| < 10^Mag
Mag(x) == NumDigits(Abs(x.m)) + x.e

\* isNaN
IsNaN(x) == x.kind = "nan"

\* Number.isInteger
IsInteger(x) == x.kind = "fin" /\ x.e >= 0

PosFinLess(a, b) ==
    \* a, b finite and positive
    IF Mag(a) # Mag(b) THEN Mag(a) < Mag(b)
    ELSE IF a.e >= b.e THEN a.m * Pow10(a.e - b.e) < b.m
    ELSE a.m < b.m * Pow10(b.e - a.e)

FinLess(a, b) ==
    IF Sign(a.m) # Sign(b.m) THEN Sign(a.m) < Sign(b.m)
    ELSE IF a.m = 0 THEN FALSE
    ELSE IF a.m > 0 THEN PosFinLess(a, b)
    ELSE PosFinLess([b EXCEPT !.m = -b.m], [a EXCEPT !.m = -a.m])

\* the < of JavaScript numbers (false when either side is NaN)
NumLess(a, b) ==
    IF IsNaN(a) \/ IsNaN(b) THEN FALSE
    ELSE IF a.kind = "inf" THEN a.m < 0 /\ ~(b.kind = "inf" /\ b.m < 0)
    ELSE IF b.kind = "inf" THEN b.m > 0
    ELSE FinLess(a, b)

\* >, >=, <= of JavaScript numbers
NumGreater(a, b) == NumLess(b, a)

NumGeq(a, b) == ~IsNaN(a) /\ ~IsNaN(b) /\ ~NumLess(a, b)

NumLeq(a, b) == NumGeq(b, a)

Int2Num(n) == Fin(n, 0)

\* ------------------------------------------------------------------------
\* Number(value): the StringToNumber conversion of the host.  Exact for
\* literals of at most nine significant digits; in the subnormal range only
\* the rounding to zero is modelled.
\* ------------------------------------------------------------------------

IsWhiteSpace(c) == c \in {" ", "\t", "\n", "\r"}

RECURSIVE TrimStart(_)
TrimStart(s) ==
    IF s # <<>> /\ IsWhiteSpace(Head(s)) THEN TrimStart(Tail(s)) ELSE s

RECURSIVE TrimEnd(_)
TrimEnd(s) ==
    IF s # <<>> /\ IsWhiteSpace(s[Len(s)])
    THEN TrimEnd(SubSeq(s, 1, Len(s) - 1))
    ELSE s

Trim(s) == TrimEnd(TrimStart(s))

\* the first index of s holding a character of cs, or 0
IndexOfAny(s, cs) ==
    IF \E i \in 1..Len(s) : s[i] \in cs
    THEN CHOOSE i \in 1..Len(s) : s[i] \in cs /\ \A j \in 1..(i - 1) : s[j] \notin cs
    ELSE 0

S_Infinity == <<"I", "n", "f", "i", "n", "i", "t", "y">>

S_NaN == <<"N", "a", "N">>

\* 0x.., 0o.., 0b..: NonDecimalIntegerLiteral (no sign allowed)
RadixLiteral(t, radix) ==
    IF Len(t) > 2 /\ \A i \in 3..Len(t) : DigitVal(t[i]) < radix
    THEN Fin(RadixValue(Slice(t, 2), radix), 0)
    ELSE NaN

\* a finite decimal as the double it rounds to
RoundFin(x) ==
    LET m9 == Abs(x.m) * Pow10(9 - NumDigits(Abs(x.m)))
    IN  IF x.m = 0 THEN x
        ELSE IF Mag(x) > 309 \/ (Mag(x) = 309 /\ m9 >= 179769314)
        THEN (IF x.m < 0 THEN NegInfinity ELSE Infinity)
        ELSE IF Mag(x) < -323 \/ (Mag(x) = -323 /\ m9 <= 247032822)
        THEN Fin(0, 0)
        ELSE x

RoundDecimal(m, e) == RoundFin(Fin(m, e))

\* the value of the integer digits ip, the fraction digits fp and the exponent
\* digits es (of sign esg, present when hasExp), times sgn
DecimalValue(ip, fp, es, esg, hasExp, sgn) ==
    IF /\ AllDigits(ip) /\ AllDigits(fp)
       /\ Len(ip) + Len(fp) >= 1
       /\ (hasExp => (es # <<>> /\ AllDigits(es)))
    THEN RoundDecimal(sgn * RadixValue(ip \o fp, 10),
                      esg * RadixValue(es, 10) - Len(fp))
    ELSE NaN

\* the mantissa mp split at its decimal point di
DecimalMantissa(mp, di, ep, hasExp, sgn) ==
    DecimalValue(IF di = 0 THEN mp ELSE SubSeq(mp, 1, di - 1),
                 IF di = 0 THEN <<>> ELSE Slice(mp, di),
                 IF ep # <<>> /\ Head(ep) \in {"+", "-"} THEN Tail(ep) ELSE ep,
                 IF ep # <<>> /\ Head(ep) = "-" THEN -1 ELSE 1,
                 hasExp, sgn)

\* the literal u split at its exponent marker ei
DecimalSplit(u, ei, sgn) ==
    DecimalMantissa(IF ei = 0 THEN u ELSE SubSeq(u, 1, ei - 1),
                    IndexOfAny(IF ei = 0 THEN u ELSE SubSeq(u, 1, ei - 1), {"."}),
                    IF ei = 0 THEN <<>> ELSE Slice(u, ei),
                    ei # 0, sgn)

\* StrUnsignedDecimalLiteral with an optional ExponentPart, times sgn
DecimalLiteral(u, sgn) == DecimalSplit(u, IndexOfAny(u, {"e", "E"}), sgn)

\* the StringNumericLiteral t, white space trimmed
TrimmedToNumber(t) ==
    IF t = <<>> THEN Fin(0, 0)
    ELSE IF Len(t) >= 2 /\ t[1] = "0" /\ t[2] \in {"x", "X"} THEN RadixLiteral(t, 16)
    ELSE IF Len(t) >= 2 /\ t[1] = "0" /\ t[2] \in {"o", "O"} THEN RadixLiteral(t, 8)
    ELSE IF Len(t) >= 2 /\ t[1] = "0" /\ t[2] \in {"b", "B"} THEN RadixLiteral(t, 2)
    ELSE IF (IF Head(t) \in {"+", "-"} THEN Tail(t) ELSE t) = S_Infinity
    THEN (IF Head(t) = "-" THEN NegInfinity ELSE Infinity)
    ELSE DecimalLiteral(IF Head(t) \in {"+", "-"} THEN Tail(t) ELSE t,
                        IF Head(t) = "-" THEN -1 ELSE 1)

\* Number(s) for a string s
StringToNumber(s) == TrimmedToNumber(Trim(s))

\* the digits ds of a finite non-zero number of decimal exponent e:
\* n = Len(ds) + e is the position of its decimal point
DigitsToString(ds, n) ==
    IF Len(ds) <= n /\ n <= 21 THEN ds \o Zeros(n - Len(ds))
    ELSE IF 0 < n /\ n <= 21
    THEN SubSeq(ds, 1, n) \o <<".">> \o SubSeq(ds, n + 1, Len(ds))
    ELSE IF -6 < n /\ n <= 0 THEN <<"0", ".">> \o Zeros(-n) \o ds
    ELSE (IF Len(ds) = 1 THEN ds ELSE <<ds[1], ".">> \o Tail(ds))
           \o (IF n - 1 < 0 THEN <<"e", "-">> ELSE <<"e", "+">>)
           \o NatToString(Abs(n - 1))

\* String(x), `${x}` for a number x (Number::toString, radix 10)
NumberToString(x) ==
    IF x.kind = "nan" THEN S_NaN
    ELSE IF x.kind = "inf" THEN (IF x.m < 0 THEN <<"-">> ELSE <<>>) \o S_Infinity
    ELSE IF x.m = 0 THEN <<"0">>
    ELSE (IF x.m < 0 THEN <<"-">> ELSE <<>>)
           \o DigitsToString(NatToString(Abs(x.m)), NumDigits(Abs(x.m)) + x.e)

\* ------------------------------------------------------------------------
\* new RegExp(p) and regex.test(s), for the patterns built of ^, $, ., \d, \w,
\* \s, escaped and plain characters, each atom with an optional +, * or ?.
\* An opening ( or [ that is never closed, a closing ) with no opening, a
\* quantifier with nothing to repeat and a trailing \ are SyntaxErrors.
\* Groups, classes, alternation and braces are outside the modelled subset.
\* ------------------------------------------------------------------------

Quantifiers == {"+", "*", "?"}

Item(kind, c, q) == [kind |-> kind, c |-> c, q |-> q]

RECURSIVE RegExpItems(_)

\* the atom of kind `kind` and character ch, followed by rest
RegExpAtom(kind, ch, rest) ==
    IF rest # <<>> /\ Head(rest) \in Quantifiers /\ kind \notin {"bol", "eol"}
    THEN <<Item(kind, ch, Head(rest))>>
           \* a ? after a quantifier makes it lazy, which test() cannot observe
           \o RegExpItems(IF Len(rest) >= 2 /\ rest[2] = "?"
                          THEN Slice(rest, 2) ELSE Tail(rest))
    ELSE <<Item(kind, ch, "1")>> \o RegExpItems(rest)

\* the items of a pattern, or <<"SyntaxError">> as the last item
RegExpItems(p) ==
    IF p = <<>> THEN <<>>
    ELSE IF \/ Head(p) \in Quantifiers \cup {"(", ")", "[", "{", "|"}
            \/ (Head(p) = "\\" /\ Len(p) = 1)
    THEN <<Item("SyntaxError", Head(p), "1")>>
    ELSE IF Head(p) = "\\"
    THEN RegExpAtom(CASE p[2] = "d" -> "digit" [] p[2] = "w" -> "word"
                      [] p[2] = "s" -> "space" [] OTHER -> "char",
                    p[2], Slice(p, 2))
    ELSE RegExpAtom(CASE Head(p) = "^" -> "bol" [] Head(p) = "$" -> "eol"
                      [] Head(p) = "." -> "any" [] OTHER -> "char",
                    Head(p), Tail(p))

NoSyntaxError(items) == items = <<>> \/ items[Len(items)].kind # "SyntaxError"

\* new RegExp(p) does not throw
RegExpCompiles(p) == NoSyntaxError(RegExpItems(p))

IsWordChar(c) == IsLetter(c) \/ c \in Digits \/ c = "_"

AtomMatches(it, c) ==
    CASE it.kind = "char"  -> c = it.c
      [] it.kind = "digit" -> c \in Digits
      [] it.kind = "word"  -> IsWordChar(c)
      [] it.kind = "space" -> IsWhiteSpace(c)
      [] it.kind = "any"   -> c \notin {"\n", "\r"}
      [] OTHER -> FALSE

RECURSIVE MatchFrom(_, _, _, _)

\* item it = items[i] at position pos, where `here` tells whether its atom
\* matches the character at pos
MatchItem(items, i, s, pos, it, here) ==
    CASE it.kind = "bol" -> pos = 1 /\ MatchFrom(items, i + 1, s, pos)
      [] it.kind = "eol" -> pos = Len(s) + 1 /\ MatchFrom(items, i + 1, s, pos)
      [] it.q = "1" -> here /\ MatchFrom(items, i + 1, s, pos + 1)
      [] it.q = "?" -> \/ (here /\ MatchFrom(items, i + 1, s, pos + 1))
                       \/ MatchFrom(items, i + 1, s, pos)
      [] it.q = "*" -> \/ (here /\ MatchFrom(items, i, s, pos + 1))
                       \/ MatchFrom(items, i + 1, s, pos)
      [] OTHER      -> here /\ MatchFrom([items EXCEPT ![i] = Item(it.kind, it.c, "*")],
                                         i, s, pos + 1)

\* items[i..] match s from position pos on
MatchFrom(items, i, s, pos) ==
    IF i > Len(items) THEN TRUE
    ELSE MatchItem(items, i, s, pos, items[i],
                   pos <= Len(s) /\ AtomMatches(items[i], s[pos]))

MatchAnywhere(items, s) == \E start \in 1..(Len(s) + 1) : MatchFrom(items, 1, s, start)

\* new RegExp(p).test(s), for a pattern that compiles
RegExpTest(p, s) == MatchAnywhere(RegExpItems(p), s)

\* ------------------------------------------------------------------------
\* JSON.parse(s) succeeds: a recursive-descent reading of the JSON grammar.
\* A parser returns the position after what it read, or 0 when it fails.
\* ------------------------------------------------------------------------

IsJsonWs(c) == c \in {" ", "\t", "\n", "\r"}

IsHexDigit(c) == DigitVal(c) < 16

RECURSIVE SkipWs(_, _)
SkipWs(s, i) == IF i <= Len(s) /\ IsJsonWs(s[i]) THEN SkipWs(s, i + 1) ELSE i

RECURSIVE SkipDigits(_, _)
SkipDigits(s, i) == IF i <= Len(s) /\ s[i] \in Digits THEN SkipDigits(s, i + 1) ELSE i

At(s, i) == IF 1 <= i /\ i <= Len(s) THEN s[i] ELSE ""

HasAt(s, i, w) == i + Len(w) - 1 <= Len(s) /\ SubSeq(s, i, i + Len(w) - 1) = w

\* q, or 0 (failure) when nothing was read between p and q
Read(p, q) == IF q = p THEN 0 ELSE q

\* ([eE] [+-]? digits+)?
JsonExponent(s, c) ==
    IF At(s, c) \notin {"e", "E"} THEN c
    ELSE IF At(s, c + 1) \in {"+", "-"} THEN Read(c + 2, SkipDigits(s, c + 2))
    ELSE Read(c + 1, SkipDigits(s, c + 1))

\* (. digits+)? and the exponent, after the integer part read from a to b
JsonFraction(s, a, b) ==
    IF b = a THEN 0
    ELSE IF At(s, b) # "." THEN JsonExponent(s, b)
    ELSE IF Read(b + 1, SkipDigits(s, b + 1)) = 0 THEN 0
    ELSE JsonExponent(s, SkipDigits(s, b + 1))

\* (0 | [1-9] digits) and what follows
JsonInteger(s, a) ==
    JsonFraction(s, a, IF At(s, a) = "0" THEN a + 1 ELSE SkipDigits(s, a))

\* -? (0 | [1-9] digits) (. digits+)? ([eE] [+-]? digits+)?
JsonNumber(s, i) == JsonInteger(s, IF At(s, i) = "-" THEN i + 1 ELSE i)

RECURSIVE JsonStringBody(_, _)
\* the characters of a string up to and including its closing quote
JsonStringBody(s, i) ==
    IF i > Len(s) THEN 0
    ELSE IF s[i] = "\"" THEN i + 1
    ELSE IF s[i] \in {"\t", "\n", "\r"} THEN 0
    ELSE IF s[i] = "\\"
    THEN (IF At(s, i + 1) \in {"\"", "\\", "/", "b", "f", "n", "r", "t"}
          THEN JsonStringBody(s, i + 2)
          ELSE IF At(s, i + 1) = "u" /\ i + 5 <= Len(s)
                  /\ \A k \in (i + 2)..(i + 5) : IsHexDigit(s[k])
          THEN JsonStringBody(s, i + 6)
          ELSE 0)
    ELSE JsonStringBody(s, i + 1)

JsonString(s, i) == IF At(s, i) = "\"" THEN JsonStringBody(s, i + 1) ELSE 0

RECURSIVE JsonValue(_, _)
RECURSIVE JsonElements(_, _)
RECURSIVE JsonMembers(_, _)

\* after a value that ended at j (white space skipped): ] or , and more
JsonElementsNext(s, j) ==
    IF At(s, j) = "]" THEN j + 1
    ELSE IF At(s, j) = "," THEN JsonElements(s, SkipWs(s, j + 1))
    ELSE 0

JsonElementsAfter(s, v) == IF v = 0 THEN 0 ELSE JsonElementsNext(s, SkipWs(s, v))

\* value (ws , ws value)* ws ]
JsonElements(s, i) == JsonElementsAfter(s, JsonValue(s, i))

\* after a member's value that ended at j (white space skipped): } or , and more
JsonMembersNext(s, j) ==
    IF At(s, j) = "}" THEN j + 1
    ELSE IF At(s, j) = "," THEN JsonMembers(s, SkipWs(s, j + 1))
    ELSE 0

JsonMemberValue(s, v) == IF v = 0 THEN 0 ELSE JsonMembersNext(s, SkipWs(s, v))

\* after a member's key: the colon at c and the value
JsonMemberColon(s, c) ==
    IF At(s, c) # ":" THEN 0 ELSE JsonMemberValue(s, JsonValue(s, SkipWs(s, c + 1)))

JsonMemberKey(s, k) == IF k = 0 THEN 0 ELSE JsonMemberColon(s, SkipWs(s, k))

\* string ws : ws value (ws , ws member)* ws }
JsonMembers(s, i) == JsonMemberKey(s, JsonString(s, i))

\* after [ or {: the closing bracket at once, or the elements
JsonArray(s, j) == IF At(s, j) = "]" THEN j + 1 ELSE JsonElements(s, j)

JsonObject(s, j) == IF At(s, j) = "}" THEN j + 1 ELSE JsonMembers(s, j)

JsonValue(s, i) ==
    IF HasAt(s, i, <<"t", "r", "u", "e">>) THEN i + 4
    ELSE IF HasAt(s, i, <<"f", "a", "l", "s", "e">>) THEN i + 5
    ELSE IF HasAt(s, i, <<"n", "u", "l", "l">>) THEN i + 4
    ELSE IF At(s, i) = "\"" THEN JsonString(s, i)
    ELSE IF At(s, i) = "[" THEN JsonArray(s, SkipWs(s, i + 1))
    ELSE IF At(s, i) = "{" THEN JsonObject(s, SkipWs(s, i + 1))
    ELSE JsonNumber(s, i)

JsonEndsAt(s, v) == v # 0 /\ SkipWs(s, v) = Len(s) + 1

\* JSON.parse(s) does not throw
JsonParses(s) == JsonEndsAt(s, JsonValue(s, SkipWs(s, 1)))

\* ------------------------------------------------------------------------
\* new URL(s) succeeds (no base URL): the WHATWG URL parser's failures.
\* Modelled: the scheme, the authority of special and of non-special schemes,
\* forbidden host code points, decimal/octal/hex IPv4 hosts and the port.
\* Not modelled (the inputs hold none): IPv6 literals in brackets,
\* percent-encoded and non-ASCII hosts.
\* ------------------------------------------------------------------------

RECURSIVE RemoveAll(_, _)
RemoveAll(s, cs) ==
    IF s = <<>> THEN <<>>
    ELSE IF Head(s) \in cs THEN RemoveAll(Tail(s), cs)
    ELSE <<Head(s)>> \o RemoveAll(Tail(s), cs)

\* the last index of s holding a character of cs, or 0
LastIndexOfAny(s, cs) ==
    IF \E i \in 1..Len(s) : s[i] \in cs
    THEN CHOOSE i \in 1..Len(s) : s[i] \in cs /\ \A j \in (i + 1)..Len(s) : s[j] \notin cs
    ELSE 0

RECURSIVE SkipSlashes(_, _)
SkipSlashes(s, cs) ==
    IF s # <<>> /\ Head(s) \in cs THEN SkipSlashes(Tail(s), cs) ELSE s

SpecialSchemes == {<<"h", "t", "t", "p">>, <<"h", "t", "t", "p", "s">>,
                   <<"w", "s">>, <<"w", "s", "s">>, <<"f", "t", "p">>,
                   <<"f", "i", "l", "e">>}

S_file == <<"f", "i", "l", "e">>

ForbiddenHostChars ==
    {" ", "\t", "\n", "\r", "#", "/", ":", "<", ">", "?", "@", "[", "\\", "]", "^", "|"}

ForbiddenDomainChars == ForbiddenHostChars \cup {"%"}

RECURSIVE SplitDots(_)

SplitAt(s, i) ==
    IF i = 0 THEN <<s>> ELSE <<SubSeq(s, 1, i - 1)>> \o SplitDots(Slice(s, i))

\* s.split(".")
SplitDots(s) == SplitAt(s, IndexOfAny(s, {"."}))

\* the digits ds in radix r, or -1 when one of them is no digit of that radix
Ipv4Digits(ds, r) ==
    IF \A k \in 1..Len(ds) : DigitVal(ds[k]) < r THEN RadixValue(ds, r) ELSE -1

\* an IPv4 part: 0x.. hexadecimal, 0.. octal or decimal; -1 when it is no number
Ipv4Number(part) ==
    IF part = <<>> THEN -1
    ELSE IF Len(part) >= 2 /\ part[1] = "0" /\ part[2] \in {"x", "X"}
    THEN Ipv4Digits(Slice(part, 2), 16)
    ELSE IF Len(part) >= 2 /\ part[1] = "0" THEN Ipv4Digits(Tail(part), 8)
    ELSE Ipv4Digits(part, 10)

\* the IPv4 parser on the parts of a host that ends in a number
ValidIpv4(parts, n) ==
    /\ n <= 4
    /\ \A k \in 1..n : Ipv4Number(parts[k]) >= 0
    /\ \A k \in 1..(n - 1) : Ipv4Number(parts[k]) <= 255
    /\ Ipv4Number(parts[n]) < (CASE n = 1 -> 2147483647 [] n = 2 -> 16777216
                                 [] n = 3 -> 65536 [] OTHER -> 256)

\* the ends-in-a-number checker: the last part is all digits or an IPv4 number
EndsInNumber(last) == (last # <<>> /\ AllDigits(last)) \/ Ipv4Number(last) >= 0

ValidHostParts(parts) ==
    EndsInNumber(parts[Len(parts)]) => ValidIpv4(parts, Len(parts))

\* a single trailing empty part is ignored
WithoutTrailingDot(all) ==
    ValidHostParts(IF Len(all) > 1 /\ all[Len(all)] = <<>>
                   THEN SubSeq(all, 1, Len(all) - 1) ELSE all)

\* the host parser accepts a domain or an IPv4 address
ValidSpecialHost(h) ==
    /\ h # <<>>
    /\ \A k \in 1..Len(h) : h[k] \notin ForbiddenDomainChars
    /\ WithoutTrailingDot(SplitDots(h))

ValidOpaqueHost(h) == \A k \in 1..Len(h) : h[k] \notin ForbiddenHostChars

ValidPort(p) == AllDigits(p) /\ (p = <<>> \/ (Len(p) <= 9 /\ RadixValue(p, 10) <= 65535))

\* host state and port state
ValidHostPort(host, port, special, mayBeEmpty, a, c) ==
    IF host = <<>> THEN mayBeEmpty /\ a = 0 /\ c = 0
    ELSE /\ (IF special THEN ValidSpecialHost(host) ELSE ValidOpaqueHost(host))
         /\ ValidPort(port)

\* hp is what follows the credentials (which end at a); c is its first colon
SplitHostPort(hp, special, mayBeEmpty, a, c) ==
    ValidHostPort(IF c = 0 THEN hp ELSE SubSeq(hp, 1, c - 1),
                  IF c = 0 THEN <<>> ELSE Slice(hp, c), special, mayBeEmpty, a, c)

AfterCredentials(hp, special, mayBeEmpty, a) ==
    SplitHostPort(hp, special, mayBeEmpty, a, IndexOfAny(hp, {":"}))

SplitCredentials(auth, special, mayBeEmpty, a) ==
    AfterCredentials(Slice(auth, a), special, mayBeEmpty, a)

AuthorityOf(auth, special, mayBeEmpty) ==
    SplitCredentials(auth, special, mayBeEmpty, LastIndexOfAny(auth, {"@"}))

AuthorityUpTo(r, e, special, mayBeEmpty) ==
    AuthorityOf(IF e = 0 THEN r ELSE SubSeq(r, 1, e - 1), special, mayBeEmpty)

\* authority state, host state and port state on what follows the slashes
ValidAuthority(r, special, mayBeEmpty) ==
    AuthorityUpTo(r, IndexOfAny(r, IF special THEN {"/", "\\", "?", "#"}
                                   ELSE {"/", "?", "#"}),
                  special, mayBeEmpty)

\* what follows the scheme and its colon
AfterScheme(scheme, rest) ==
    IF scheme = S_file
    THEN (Len(rest) >= 2 /\ rest[1] \in {"/", "\\"} /\ rest[2] \in {"/", "\\"})
           => ValidAuthority(Slice(rest, 2), TRUE, TRUE)
    ELSE IF scheme \in SpecialSchemes
    THEN ValidAuthority(SkipSlashes(rest, {"/", "\\"}), TRUE, FALSE)
    ELSE (Len(rest) >= 2 /\ rest[1] = "/" /\ rest[2] = "/")
           => ValidAuthority(Slice(rest, 2), FALSE, TRUE)

\* scheme start state and scheme state: t[1..ci-1] is the scheme
SchemeOf(t, ci) ==
    /\ ci >= 2
    /\ IsLetter(t[1])
    /\ \A k \in 2..(ci - 1) : IsLetter(t[k]) \/ t[k] \in Digits \cup {"+", "-", "."}
    /\ AfterScheme(ToLowerCase(SubSeq(t, 1, ci - 1)), Slice(t, ci))

UrlOf(t) == SchemeOf(t, IndexOfAny(t, {":"}))

\* new URL(s) does not throw
UrlParses(s) == UrlOf(RemoveAll(Trim(s), {"\t", "\n", "\r"}))

\* ------------------------------------------------------------------------
\* Format validators
\* ------------------------------------------------------------------------

S_url == <<"u", "r", "l">>

S_email == <<"e", "m", "a", "i", "l">>

S_uuid == <<"u", "u", "i", "d">>

S_json == <<"j", "s", "o", "n">>

S_base64 == <<"b", "a", "s", "e", "6", "4">>

S_hex == <<"h", "e", "x">>

S_alphanumeric == <<"a", "l", "p", "h", "a", "n", "u", "m", "e", "r", "i", "c">>

S_port == <<"p", "o", "r", "t">>

S_positive == <<"p", "o", "s", "i", "t", "i", "v", "e">>

S_integer == <<"i", "n", "t", "e", "g", "e", "r">>

S_percentage == <<"p", "e", "r", "c", "e", "n", "t", "a", "g", "e">>

S_regex == <<"r", "e", "g", "e", "x", ":">>

\* the own keys of the formatValidators object
FormatNames == {S_url, S_email, S_uuid, S_json, S_base64, S_hex, S_alphanumeric, S_port, S_positive, S_integer, S_percentage}

S_constructor == <<"c", "o", "n", "s", "t", "r", "u", "c", "t", "o", "r">>

S_toString == <<"t", "o", "S", "t", "r", "i", "n", "g">>

S_toLocaleString == <<"t", "o", "L", "o", "c", "a", "l", "e", "S", "t", "r", "i", "n", "g">>

S_valueOf == <<"v", "a", "l", "u", "e", "O", "f">>

S_hasOwnProperty == <<"h", "a", "s", "O", "w", "n", "P", "r", "o", "p", "e", "r", "t", "y">>

S_isPrototypeOf == <<"i", "s", "P", "r", "o", "t", "o", "t", "y", "p", "e", "O", "f">>

S_propertyIsEnumerable == <<"p", "r", "o", "p", "e", "r", "t", "y", "I", "s", "E", "n", "u", "m", "e", "r", "a", "b", "l", "e">>

S_uproto == <<"_", "_", "p", "r", "o", "t", "o", "_", "_">>

S_udefineGetter == <<"_", "_", "d", "e", "f", "i", "n", "e", "G", "e", "t", "t", "e", "r", "_", "_">>

S_udefineSetter == <<"_", "_", "d", "e", "f", "i", "n", "e", "S", "e", "t", "t", "e", "r", "_", "_">>

S_ulookupGetter == <<"_", "_", "l", "o", "o", "k", "u", "p", "G", "e", "t", "t", "e", "r", "_", "_">>

S_ulookupSetter == <<"_", "_", "l", "o", "o", "k", "u", "p", "S", "e", "t", "t", "e", "r", "_", "_">>

\* formatValidators is an ordinary object: a lookup of a key it does not own
\* finds the members of Object.prototype
ObjectPrototypeNames == {S_constructor, S_toString, S_toLocaleString, S_valueOf,
                         S_hasOwnProperty, S_isPrototypeOf, S_propertyIsEnumerable, S_uproto,
                         S_udefineGetter, S_udefineSetter, S_ulookupGetter, S_ulookupSetter}

\* /^[^\s@]+@[^\s@]+\.[^\s@]+$/
EmailMatches(v) ==
    \E i \in 2..Len(v) : \E j \in (i + 2)..(Len(v) - 1) :
        /\ v[i] = "@" /\ v[j] = "."
        /\ \A k \in 1..Len(v) : k # i => ~IsWhiteSpace(v[k]) /\ v[k] # "@"

\* /^[0-9a-f]{8}-[0-9a-f]{4}-[0-9a-f]{4}-[0-9a-f]{4}-[0-9a-f]{12}$/i
UuidMatches(v) ==
    /\ Len(v) = 36
    /\ \A k \in 1..36 : IF k \in {9, 14, 19, 24} THEN v[k] = "-" ELSE IsHexDigit(v[k])

IsBase64Char(c) == IsLetter(c) \/ c \in Digits \/ c \in {"+", "/"}

\* /^[A-Za-z0-9+/]*={0,2}$/ and a length that is a multiple of 4
Base64Matches(v) ==
    /\ \E pad \in 0..2 :
         /\ pad <= Len(v)
         /\ \A k \in 1..Len(v) :
              IF k > Len(v) - pad THEN v[k] = "=" ELSE IsBase64Char(v[k])
    /\ Len(v) % 4 = 0

\* /^[0-9a-fA-F]+$/
HexMatches(v) == v # <<>> /\ \A k \in 1..Len(v) : IsHexDigit(v[k])

\* /^[a-zA-Z0-9]+$/
AlphanumericMatches(v) ==
    v # <<>> /\ \A k \in 1..Len(v) : IsLetter(v[k]) \/ v[k] \in Digits

\* fault variant of IsPort: 0 is a port
IsPortFromZero(num) ==
    ~IsNaN(num) /\ NumGeq(num, Int2Num(0)) /\ NumLeq(num, Int2Num(65535))
    /\ IsInteger(num)

IsPort(num) ==
    ~IsNaN(num) /\ NumGeq(num, Int2Num(1)) /\ NumLeq(num, Int2Num(65535))
    /\ IsInteger(num)

\* const num = Number(v); !isNaN(num) && num >= 1 && num <= 65535 && Number.isInteger(num)
PortMatches(v) == IsPort(StringToNumber(v))

IsPositive(num) == ~IsNaN(num) /\ NumGreater(num, Int2Num(0))

PositiveMatches(v) == IsPositive(StringToNumber(v))

IsIntegerNumber(num) == ~IsNaN(num) /\ IsInteger(num)

IntegerMatches(v) == IsIntegerNumber(StringToNumber(v))

IsPercentage(num) == ~IsNaN(num) /\ NumGeq(num, Int2Num(0)) /\ NumLeq(num, Int2Num(100))

PercentageMatches(v) == IsPercentage(StringToNumber(v))

\* formatValidators[name](value) for an own key
formatValidators(name, value) ==
    CASE name = S_url          -> UrlParses(value)
      [] name = S_email        -> EmailMatches(value)
      [] name = S_uuid         -> UuidMatches(value)
      [] name = S_json         -> JsonParses(value)
      [] name = S_base64       -> Base64Matches(value)
      [] name = S_hex          -> HexMatches(value)
      [] name = S_alphanumeric -> AlphanumericMatches(value)
      [] name = S_port         -> PortMatches(value)
      [] name = S_positive     -> PositiveMatches(value)
      [] name = S_integer      -> IntegerMatches(value)
      [] name = S_percentage   -> PercentageMatches(value)

\* validator(value) for a member of Object.prototype, called as a plain
\* function of a strict-mode module (this = undefined): "truthy", "falsy" or
\* "throws" (a TypeError)
ObjectPrototypeCall(name) ==
    CASE name = S_constructor   -> "truthy"
      [] name = S_toString      -> "truthy"
      [] name = S_isPrototypeOf -> "falsy"
      [] OTHER                  -> "throws"

\* const validator = formatValidators[format]; validator && !validator(value):
\* "pass", "fail", or "throws"
BuiltinFormatCheck(format, value) ==
    IF format \in FormatNames
    THEN (IF formatValidators(format, value) THEN "pass" ELSE "fail")
    ELSE IF format \in ObjectPrototypeNames
    THEN (CASE ObjectPrototypeCall(format) = "truthy" -> "pass"
            [] ObjectPrototypeCall(format) = "falsy"  -> "fail"
            [] OTHER -> "throws")
    ELSE "pass"

\* ------------------------------------------------------------------------
\* Typed values (string | number | boolean) and message texts
\* ------------------------------------------------------------------------

StrVal(s) == [t |-> "string", s |-> s, n |-> NaN, b |-> FALSE]

NumVal(n) == [t |-> "number", s |-> <<>>, n |-> n, b |-> FALSE]

BoolVal(b) == [t |-> "boolean", s |-> <<>>, n |-> NaN, b |-> b]

S_true == <<"t", "r", "u", "e">>

S_false == <<"f", "a", "l", "s", "e">>

\* `${v}` for a typed value
ValueToString(v) ==
    CASE v.t = "string" -> v.s
      [] v.t = "number" -> NumberToString(v.n)
      [] OTHER          -> IF v.b THEN S_true ELSE S_false

\* a template literal: its text with {0}, {1} for the interpolated strings
Text(tpl, args) == [tpl |-> tpl, args |-> args]

\* ------------------------------------------------------------------------
\* Type coercion
\* ------------------------------------------------------------------------

TrueTokens == <<S_true, <<"1">>, <<"y", "e", "s">>, <<"o", "n">>>>

FalseTokens == <<S_false, <<"0">>, <<"n", "o">>, <<"o", "f", "f">>>>

Coerced(value) == [success |-> TRUE, value |-> value, error |-> None]

NotCoerced(value, message) ==
    [success |-> FALSE, value |-> StrVal(value), error |-> Some(message)]

\* case 'number', after const num = Number(value)
coerceNumber(value, num) ==
    IF IsNaN(num)
    THEN NotCoerced(value, Text("Cannot convert \"{0}\" to number", <<value>>))
    ELSE Coerced(NumVal(num))

\* case 'boolean', after const lower = value.toLowerCase()
coerceBoolean(value, lower) ==
    IF Includes(TrueTokens, lower) THEN Coerced(BoolVal(TRUE))
    ELSE IF Includes(FalseTokens, lower) THEN Coerced(BoolVal(FALSE))
    ELSE NotCoerced(value,
                    Text("Cannot convert \"{0}\" to boolean. Use true/false, 1/0, yes/no, or on/off",
                         <<value>>))

\* fault variant of coerceValue: the boolean tokens are compared as written
coerceValueCaseSensitive(value, type) ==
    CASE type = "string"  -> Coerced(StrVal(value))
      [] type = "number"  -> coerceNumber(value, StringToNumber(value))
      [] type = "boolean" -> coerceBoolean(value, value)
      [] OTHER            -> Coerced(StrVal(value))

coerceValue(value, type) ==
    CASE type = "string"  -> Coerced(StrVal(value))
      [] type = "number"  -> coerceNumber(value, StringToNumber(value))
      [] type = "boolean" -> coerceBoolean(value, ToLowerCase(value))
      [] OTHER            -> Coerced(StrVal(value))

\* ------------------------------------------------------------------------
\* Validation of one variable
\* ------------------------------------------------------------------------

\* a ValidationError
Error(name, message, type, expected, received) ==
    [variable |-> name, message |-> message, type |-> type,
     expected |-> expected, received |-> received]

\* a ValidationWarning
Warning(name, message, type) ==
    [variable |-> name, message |-> message, type |-> type]

\* what validateVariable returns (threw: it returned nothing, an exception left it)
Outcome(error, warning, parsed) ==
    [threw |-> FALSE, error |-> error, warning |-> warning, parsed |-> parsed]

Threw == [threw |-> TRUE, error |-> None, warning |-> None, parsed |-> None]

ReturnError(e) == Outcome(Some(e), None, None)

\* fault variant of IsMissing: the empty string counts as a value
IsMissingUndefinedOnly(value) == value = None

\* value === undefined || value === ''
IsMissing(value) == value = None \/ value = Some(<<>>)

\* fault variant of DefaultApplied: the default is converted to the declared
\* type, and reported when it cannot be
DefaultAppliedChecked(name, spec) ==
    IF ~coerceValue(ValueToString(Get(spec.default)), spec.type).success
    THEN ReturnError(Error(name, Text("Type conversion failed", <<>>), "invalid_type",
                           None, None))
    ELSE Outcome(None,
                 Some(Warning(name,
                              Text("Using default value: {0}",
                                   <<ValueToString(Get(spec.default))>>),
                              "default_applied")),
                 Some(coerceValue(ValueToString(Get(spec.default)), spec.type).value))

\* warnings: default_applied, parsed: spec.default
DefaultApplied(name, spec) ==
    Outcome(None,
            Some(Warning(name,
                         Text("Using default value: {0}",
                              <<ValueToString(Get(spec.default))>>),
                         "default_applied")),
            spec.default)

\* fault variant of PresenceStep: a required variable is reported missing
\* before its default is looked at
PresenceStepRequiredFirst(name, spec) ==
    IF spec.required
    THEN ReturnError(Error(name, Text("Required variable is missing", <<>>),
                           "missing", None, None))
    ELSE IF spec.default # None THEN DefaultApplied(name, spec)
    ELSE Outcome(None, None, None)

\* fault variant of PresenceStep: an optional variable without default is
\* parsed as the empty string
PresenceStepOptionalEmpty(name, spec) ==
    IF spec.required
    THEN (IF spec.default # None THEN DefaultApplied(name, spec)
          ELSE ReturnError(Error(name, Text("Required variable is missing", <<>>),
                                 "missing", None, None)))
    ELSE IF spec.default # None THEN DefaultApplied(name, spec)
    ELSE Outcome(None, None, Some(StrVal(<<>>)))

\* fault variant of PresenceStep: a required variable with a default gets the
\* default and the missing error
PresenceStepErrorAndDefault(name, spec) ==
    IF spec.required
    THEN (IF spec.default # None
          THEN Outcome(Some(Error(name, Text("Required variable is missing", <<>>),
                                  "missing", None, None)),
                       DefaultApplied(name, spec).warning, spec.default)
          ELSE ReturnError(Error(name, Text("Required variable is missing", <<>>),
                                 "missing", None, None)))
    ELSE IF spec.default # None THEN DefaultApplied(name, spec)
    ELSE Outcome(None, None, None)

\* the branch for a missing value
PresenceStep(name, spec) ==
    IF spec.required
    THEN (IF spec.default # None THEN DefaultApplied(name, spec)
          ELSE ReturnError(Error(name, Text("Required variable is missing", <<>>),
                                 "missing", None, None)))
    ELSE IF spec.default # None THEN DefaultApplied(name, spec)
    ELSE Outcome(None, None, None)

\* fault variant of EnumFails: the enum is compared with the coerced value
EnumFailsCoerced(value, spec) ==
    spec.enum # None /\ Len(Get(spec.enum)) > 0
        /\ ~Includes(Get(spec.enum), ValueToString(coerceValue(value, spec.type).value))

\* spec.enum && spec.enum.length > 0 && !spec.enum.includes(value)
EnumFails(value, spec) ==
    spec.enum # None /\ Len(Get(spec.enum)) > 0 /\ ~Includes(Get(spec.enum), value)

EnumError(name, value, spec) ==
    Error(name,
          Text("Value must be one of: {0}", <<Join(Get(spec.enum), <<",", " ">>)>>),
          "invalid_enum",
          Some(Join(Get(spec.enum), <<" ", "|", " ">>)),
          Some(value))

\* if (spec.format): a string is truthy unless it is empty
HasFormat(spec) == spec.format # None /\ Get(spec.format) # <<>>

\* fault variant of RegexFormatStep: a pattern that does not compile is skipped
RegexFormatStepSwallow(pattern, value) ==
    IF ~RegExpCompiles(pattern) THEN "pass"
    ELSE IF RegExpTest(pattern, value) THEN "pass" ELSE "fail"

\* format.startsWith('regex:'), pattern = format.slice(6)
RegexFormatStep(pattern, value) ==
    IF ~RegExpCompiles(pattern) THEN "badregex"
    ELSE IF RegExpTest(pattern, value) THEN "pass" ELSE "fail"

\* the format step: "pass", "fail" (mismatch), "badregex" or "throws"
FormatStep(value, spec) ==
    IF ~HasFormat(spec) THEN "pass"
    ELSE IF StartsWith(Get(spec.format), S_regex)
    THEN RegexFormatStep(Slice(Get(spec.format), 6), value)
    ELSE BuiltinFormatCheck(Get(spec.format), value)

RegexFormatError(name, value, pattern) ==
    IF RegExpCompiles(pattern)
    THEN Error(name, Text("Value does not match pattern: {0}", <<pattern>>),
               "invalid_format", Some(pattern), Some(value))
    ELSE Error(name, Text("Invalid regex pattern: {0}", <<pattern>>),
               "invalid_format", None, None)

FormatError(name, value, spec) ==
    IF StartsWith(Get(spec.format), S_regex)
    THEN RegexFormatError(name, value, Slice(Get(spec.format), 6))
    ELSE Error(name, Text("Invalid {0} format", <<Get(spec.format)>>),
               "invalid_format", Some(Get(spec.format)), Some(value))

\* fault variant of BelowMin: the lower bound is exclusive
BelowMinExclusive(coerced, spec) ==
    spec.type = "number" /\ spec.min # None /\ NumLeq(coerced.n, Get(spec.min))

BelowMin(coerced, spec) ==
    spec.type = "number" /\ spec.min # None /\ NumLess(coerced.n, Get(spec.min))

AboveMax(coerced, spec) ==
    spec.type = "number" /\ spec.max # None /\ NumGreater(coerced.n, Get(spec.max))

MinError(name, coerced, spec) ==
    Error(name,
          Text("Value {0} is less than minimum {1}",
               <<NumberToString(coerced.n), NumberToString(Get(spec.min))>>),
          "invalid_range",
          Some(<<">", "=", " ">> \o NumberToString(Get(spec.min))),
          Some(NumberToString(coerced.n)))

MaxError(name, coerced, spec) ==
    Error(name,
          Text("Value {0} is greater than maximum {1}",
               <<NumberToString(coerced.n), NumberToString(Get(spec.max))>>),
          "invalid_range",
          Some(<<"<", "=", " ">> \o NumberToString(Get(spec.max))),
          Some(NumberToString(coerced.n)))

\* fault variant of TooShort: the length of the value's text is checked
\* whatever the declared type is
TooShortAnyType(coerced, spec) ==
    spec.minLength # None
        /\ NumLess(Int2Num(Len(ValueToString(coerced))), Get(spec.minLength))

TooShort(coerced, spec) ==
    spec.type = "string" /\ spec.minLength # None
        /\ NumLess(Int2Num(Len(coerced.s)), Get(spec.minLength))

\* fault variant of TooLong: the upper bound is exclusive
TooLongExclusive(coerced, spec) ==
    spec.type = "string" /\ spec.maxLength # None
        /\ NumGeq(Int2Num(Len(coerced.s)), Get(spec.maxLength))

TooLong(coerced, spec) ==
    spec.type = "string" /\ spec.maxLength # None
        /\ NumGreater(Int2Num(Len(coerced.s)), Get(spec.maxLength))

S_lengthGeq == <<"l", "e", "n", "g", "t", "h", " ", ">", "=", " ">>

S_lengthLeq == <<"l", "e", "n", "g", "t", "h", " ", "<", "=", " ">>

MinLengthError(name, coerced, spec) ==
    Error(name,
          Text("Value length {0} is less than minimum {1}",
               <<NatToString(Len(coerced.s)), NumberToString(Get(spec.minLength))>>),
          "invalid_range",
          Some(S_lengthGeq \o NumberToString(Get(spec.minLength))),
          Some(NatToString(Len(coerced.s))))

MaxLengthError(name, coerced, spec) ==
    Error(name,
          Text("Value length {0} is greater than maximum {1}",
               <<NatToString(Len(coerced.s)), NumberToString(Get(spec.maxLength))>>),
          "invalid_range",
          Some(S_lengthLeq \o NumberToString(Get(spec.maxLength))),
          Some(NatToString(Len(coerced.s))))

\* fault variant of PatternFails: a pattern that does not compile rejects the value
PatternFailsOnBadRegex(value, spec) ==
    /\ spec.pattern # None /\ Get(spec.pattern) # <<>>
    /\ (RegExpCompiles(Get(spec.pattern)) => ~RegExpTest(Get(spec.pattern), value))

\* if (spec.pattern) { try { if (!regex.test(value)) error } catch { skip } }
PatternFails(value, spec) ==
    /\ spec.pattern # None /\ Get(spec.pattern) # <<>>
    /\ RegExpCompiles(Get(spec.pattern))
    /\ ~RegExpTest(Get(spec.pattern), value)

PatternError(name, value, spec) ==
    Error(name, Text("Value does not match pattern: {0}", <<Get(spec.pattern)>>),
          "invalid_format", Some(Get(spec.pattern)), Some(value))

S_string == <<"s", "t", "r", "i", "n", "g">>

S_number == <<"n", "u", "m", "b", "e", "r">>

S_boolean == <<"b", "o", "o", "l", "e", "a", "n">>

\* the declared type as the string it is
TypeString(type) ==
    CASE type = "string" -> S_string [] type = "number" -> S_number [] OTHER -> S_boolean

TypeError(name, value, spec, coerced) ==
    Error(name,
          IF coerced.error # None THEN Get(coerced.error)
          ELSE Text("Type conversion failed", <<>>),
          "invalid_type", Some(TypeString(spec.type)), Some(value))

\* the range, length and pattern checks of the coerced value cv
RangeStep(name, value, spec, cv) ==
    IF BelowMin(cv, spec) THEN ReturnError(MinError(name, cv, spec))
    ELSE IF AboveMax(cv, spec) THEN ReturnError(MaxError(name, cv, spec))
    ELSE IF TooShort(cv, spec) THEN ReturnError(MinLengthError(name, cv, spec))
    ELSE IF TooLong(cv, spec) THEN ReturnError(MaxLengthError(name, cv, spec))
    ELSE IF PatternFails(value, spec) THEN ReturnError(PatternError(name, value, spec))
    ELSE Outcome(None, None, Some(cv))

\* the format check, whose outcome is fmt, and what follows it
AfterFormat(name, value, spec, cv, fmt) ==
    IF fmt = "throws" THEN Threw
    ELSE IF fmt # "pass" THEN ReturnError(FormatError(name, value, spec))
    ELSE RangeStep(name, value, spec, cv)

\* fault variant of AfterCoercion: the format is checked before the enum
AfterCoercionFormatFirst(name, value, spec, coerced) ==
    IF ~coerced.success THEN ReturnError(TypeError(name, value, spec, coerced))
    ELSE IF FormatStep(value, spec) = "throws" THEN Threw
    ELSE IF FormatStep(value, spec) # "pass"
    THEN ReturnError(FormatError(name, value, spec))
    ELSE IF EnumFails(value, spec) THEN ReturnError(EnumError(name, value, spec))
    ELSE RangeStep(name, value, spec, coerced.value)

\* the checks that follow const coerced = coerceValue(value, spec.type)
AfterCoercion(name, value, spec, coerced) ==
    IF ~coerced.success THEN ReturnError(TypeError(name, value, spec, coerced))
    ELSE IF EnumFails(value, spec) THEN ReturnError(EnumError(name, value, spec))
    ELSE AfterFormat(name, value, spec, coerced.value, FormatStep(value, spec))

\* the checks of a present value, in the order of the code
ChecksStep(name, value, spec) ==
    AfterCoercion(name, value, spec, coerceValue(value, spec.type))

validateVariable(name, value, spec) ==
    IF IsMissing(value) THEN PresenceStep(name, spec)
    ELSE ChecksStep(name, Get(value), spec)

\* ------------------------------------------------------------------------
\* Objects used as mappings (schema.variables, env, parsed): a sequence of
\* entries [key, value] in insertion order, the keys distinct.  The model's
\* keys are never names of Object.prototype members, so a lookup of a key the
\* object does not own is undefined.
\* ------------------------------------------------------------------------

Entry(k, v) == [key |-> k, value |-> v]

HasKey(obj, k) == \E i \in 1..Len(obj) : obj[i].key = k

\* obj[k]: the value, or undefined (None) when obj has no such key
Lookup(obj, k) ==
    IF HasKey(obj, k) THEN (obj[CHOOSE i \in 1..Len(obj) : obj[i].key = k]).value
    ELSE None

\* obj[k] = v
Assign(obj, k, v) ==
    IF HasKey(obj, k)
    THEN [i \in 1..Len(obj) |-> IF obj[i].key = k THEN Entry(k, v) ELSE obj[i]]
    ELSE Append(obj, Entry(k, v))

\* an array index: a canonical numeric string below 2^32 - 1, which an object
\* enumerates before its other keys, in ascending order
IsArrayIndex(k) ==
    /\ k # <<>> /\ AllDigits(k) /\ Len(k) <= 9
    /\ (Len(k) > 1 => k[1] # "0")

RECURSIVE SelectSeq2(_, _)
\* the entries with an array-index key (idx = TRUE) or the others, in order
SelectSeq2(obj, idx) ==
    IF obj = <<>> THEN <<>>
    ELSE IF IsArrayIndex(Head(obj).key) = idx
    THEN <<Head(obj)>> \o SelectSeq2(Tail(obj), idx)
    ELSE SelectSeq2(Tail(obj), idx)

RECURSIVE SortByIndex(_)

\* obj[i] first, then the others sorted
LeastFirst(obj, i) ==
    <<obj[i]>> \o SortByIndex([j \in 1..(Len(obj) - 1) |->
                                  IF j < i THEN obj[j] ELSE obj[j + 1]])

SortByIndex(obj) ==
    IF obj = <<>> THEN <<>>
    ELSE LeastFirst(obj, CHOOSE i \in 1..Len(obj) :
                           \A j \in 1..Len(obj) :
                               RadixValue(obj[i].key, 10) <= RadixValue(obj[j].key, 10))

\* Object.entries(obj): array-index keys ascending, then the others as inserted
ObjectEntries(obj) == SortByIndex(SelectSeq2(obj, TRUE)) \o SelectSeq2(obj, FALSE)

KeysOf(entries) == [i \in 1..Len(entries) |-> entries[i].key]

\* Object.keys(obj)
ObjectKeys(obj) == KeysOf(ObjectEntries(obj))

\* ------------------------------------------------------------------------
\* validate
\* ------------------------------------------------------------------------

systemVars == <<<<"P", "A", "T", "H">>,
                <<"H", "O", "M", "E">>,
                <<"U", "S", "E", "R">>,
                <<"S", "H", "E", "L", "L">>,
                <<"T", "E", "R", "M">>,
                <<"L", "A", "N", "G">>,
                <<"L", "C", "_", "A", "L", "L">>,
                <<"P", "W", "D">>,
                <<"O", "L", "D", "P", "W", "D">>,
                <<"H", "O", "S", "T", "N", "A", "M", "E">>,
                <<"L", "O", "G", "N", "A", "M", "E">>,
                <<"E", "D", "I", "T", "O", "R">>,
                <<"V", "I", "S", "U", "A", "L">>,
                <<"_">>,
                <<"S", "H", "L", "V", "L">>,
                <<"X", "D", "G", "_">>,
                <<"S", "S", "H", "_">>,
                <<"G", "P", "G", "_">>,
                <<"D", "I", "S", "P", "L", "A", "Y">>,
                <<"C", "O", "L", "O", "R", "T", "E", "R", "M">>>>

\* fault variant of isSystemEnvVar: only the exact names are skipped
isSystemEnvVarExact(key) ==
    \E i \in 1..Len(systemVars) : key = systemVars[i]

isSystemEnvVar(key) ==
    \E i \in 1..Len(systemVars) : StartsWith(key, systemVars[i]) \/ key = systemVars[i]

\* the collections validate builds (threw: an exception left the loop)
Acc(threw, errors, warnings, parsed) ==
    [threw |-> threw, errors |-> errors, warnings |-> warnings, parsed |-> parsed]

RECURSIVE ValidateEach(_, _, _)

\* fault variant of Collect: once a variable had an error, no value is parsed
CollectUntilError(acc, name, result) ==
    Acc(FALSE,
        IF result.error # None THEN Append(acc.errors, Get(result.error)) ELSE acc.errors,
        IF result.warning # None
        THEN Append(acc.warnings, Get(result.warning)) ELSE acc.warnings,
        IF result.parsed # None /\ acc.errors = <<>>
        THEN Assign(acc.parsed, name, Get(result.parsed)) ELSE acc.parsed)

\* the body of the loop after const result = validateVariable(...)
Collect(acc, name, result) ==
    Acc(FALSE,
        IF result.error # None THEN Append(acc.errors, Get(result.error)) ELSE acc.errors,
        IF result.warning # None
        THEN Append(acc.warnings, Get(result.warning)) ELSE acc.warnings,
        IF result.parsed # None
        THEN Assign(acc.parsed, name, Get(result.parsed)) ELSE acc.parsed)

EachStep(entries, env, acc, name, result) ==
    IF result.threw THEN Acc(TRUE, acc.errors, acc.warnings, acc.parsed)
    ELSE ValidateEach(Tail(entries), env, Collect(acc, name, result))

\* for (const [name, spec] of Object.entries(schema.variables)) { ... }
ValidateEach(entries, env, acc) ==
    IF entries = <<>> \/ acc.threw THEN acc
    ELSE EachStep(entries, env, acc, Head(entries).key,
                  validateVariable(Head(entries).key, Lookup(env, Head(entries).key),
                                   Head(entries).value))

RECURSIVE UnusedWarnings(_, _)
\* for (const key of Object.keys(env)) { ... } of strict mode
UnusedWarnings(keys, variables) ==
    IF keys = <<>> THEN <<>>
    ELSE (IF ~isSystemEnvVar(Head(keys)) /\ ~HasKey(variables, Head(keys))
          THEN <<Warning(Head(keys), Text("Variable not defined in schema", <<>>), "unused")>>
          ELSE <<>>)
         \o UnusedWarnings(Tail(keys), variables)

\* a ValidationResult, or the record of a call that threw
Result(valid, errors, warnings, parsed) ==
    [threw |-> FALSE, valid |-> valid, errors |-> errors, warnings |-> warnings,
     parsed |-> parsed]

ThrewResult == [threw |-> TRUE, valid |-> FALSE, errors |-> <<>>, warnings |-> <<>>,
                parsed |-> <<>>]

\* fault variant of ResultOf: a warning makes the result invalid
ResultOfCleanOnly(acc, variables, env, strict) ==
    IF acc.threw THEN ThrewResult
    ELSE Result(Len(acc.errors) = 0 /\ Len(acc.warnings) = 0, acc.errors,
                IF strict
                THEN acc.warnings \o UnusedWarnings(ObjectKeys(env), variables)
                ELSE acc.warnings,
                acc.parsed)

\* fault variant of ResultOf: the unused warnings come before the others
ResultOfUnusedFirst(acc, variables, env, strict) ==
    IF acc.threw THEN ThrewResult
    ELSE Result(Len(acc.errors) = 0, acc.errors,
                IF strict
                THEN UnusedWarnings(ObjectKeys(env), variables) \o acc.warnings
                ELSE acc.warnings,
                acc.parsed)

\* the result built from what the loop collected
ResultOf(acc, variables, env, strict) ==
    IF acc.threw THEN ThrewResult
    ELSE Result(Len(acc.errors) = 0, acc.errors,
                IF strict
                THEN acc.warnings \o UnusedWarnings(ObjectKeys(env), variables)
                ELSE acc.warnings,
                acc.parsed)

RECURSIVE StringEntries(_)
\* the entries of env whose value is a string
StringEntries(env) ==
    IF env = <<>> THEN <<>>
    ELSE (IF Head(env).value # None
          THEN <<Entry(Head(env).key, StrVal(Get(Head(env).value)))>> ELSE <<>>)
         \o StringEntries(Tail(env))

\* fault variant of validate: parsed starts as a copy of the environment
validateOverEnv(variables, env, strict) ==
    ResultOf(ValidateEach(ObjectEntries(variables), env,
                          Acc(FALSE, <<>>, <<>>, StringEntries(env))),
             variables, env, strict)

validate(variables, env, strict) ==
    ResultOf(ValidateEach(ObjectEntries(variables), env, Acc(FALSE, <<>>, <<>>, <<>>)),
             variables, env, strict)

\* fault variant of ValidOf: a result with warnings counts as not valid
ValidOfNoWarnings(result) ==
    IF result.threw THEN [threw |-> TRUE, value |-> FALSE]
    ELSE [threw |-> FALSE, value |-> result.valid /\ result.warnings = <<>>]

ValidOf(result) ==
    IF result.threw THEN [threw |-> TRUE, value |-> FALSE]
    ELSE [threw |-> FALSE, value |-> result.valid]

\* isValid(schema, env): validate(schema, env).valid, or the call threw
isValid(variables, env) == ValidOf(validate(variables, env, FALSE))

\* ------------------------------------------------------------------------
\* Schema files and env files: findSchemaFile, loadSchema, loadEnvFile
\* ------------------------------------------------------------------------

\* a path as the caller gives it, relative to the working directory
Rel(name) == [abs |-> FALSE, name |-> name]

\* path.resolve(process.cwd(), p)
Resolve(p) == [abs |-> TRUE, name |-> p.name]

\* fs.existsSync(p) in a directory of files dir (a function of absolute paths)
ExistsSync(dir, p) == p \in DOMAIN dir

DEFAULT_SCHEMA_PATHS ==
    <<Rel("env.schema.json"), Rel("env.schema.js"), Rel(".env.schema.json")>>

\* the first of the default paths that exists, or null
FirstExisting(dir, paths) ==
    IF \E i \in 1..Len(paths) : ExistsSync(dir, Resolve(paths[i]))
    THEN Some(Resolve(paths[CHOOSE i \in 1..Len(paths) :
                              /\ ExistsSync(dir, Resolve(paths[i]))
                              /\ \A j \in 1..(i - 1) : ~ExistsSync(dir, Resolve(paths[j]))]))
    ELSE None

\* findSchemaFile(customPath): the absolute path of the schema file, or null
findSchemaFile(dir, customPath) ==
    IF customPath # None
    THEN (IF ExistsSync(dir, Resolve(Get(customPath)))
          THEN Some(Resolve(Get(customPath))) ELSE None)
    ELSE FirstExisting(dir, DEFAULT_SCHEMA_PATHS)

\* path.extname(p).toLowerCase() of the file names of the model
ExtName(p) ==
    CASE p.name \in {"env.schema.json", ".env.schema.json", "custom.json", "missing.json"}
           -> ".json"
      [] p.name = "env.schema.js" -> ".js"
      [] OTHER -> ".yaml"

\* the text of a schema file: whether it begins with module.exports =, whether
\* what follows is JSON text, and the value that JSON text denotes
Content(exports, json, value) == [exports |-> exports, json |-> json, value |-> value]

\* JSON.parse of the text of a .json file, or of the text of a .js file after
\* content.replace(/module\.exports\s*=\s*/, ''): None when it throws
ParsedContent(ext, content) ==
    IF content.json /\ (ext = ".js" \/ ~content.exports) THEN Some(content.value)
    ELSE None

\* what safeParse returns
ParseSuccess(data) == [success |-> TRUE, data |-> Some(data)]

ParseFailure == [success |-> FALSE, data |-> None]

\* fault variant of VariableSchema: a definition without required is optional
VariableSchemaOptional(def) ==
    IF def.type \notin {"string", "number", "boolean"} THEN ParseFailure
    ELSE ParseSuccess([def EXCEPT !.required = IF @ = None THEN FALSE ELSE Get(@)])

\* VariableSchema.safeParse(def): type is one of the enum and required
\* defaults to true
VariableSchema(def) ==
    IF def.type \notin {"string", "number", "boolean"} THEN ParseFailure
    ELSE ParseSuccess([def EXCEPT !.required = IF @ = None THEN TRUE ELSE Get(@)])

\* z.record(VariableSchema): every definition parsed, under its key
RecordOf(defs) ==
    [i \in 1..Len(defs) |-> Entry(defs[i].key, Get(VariableSchema(defs[i].value).data))]

\* EnvSchemaDefinition.safeParse(rawSchema): rawSchema is a JSON value, here an
\* object with or without the member variables, or a value of another kind
EnvSchemaDefinition(rawSchema) ==
    IF rawSchema.kind # "object" \/ rawSchema.variables = None THEN ParseFailure
    ELSE IF \E i \in 1..Len(Get(rawSchema.variables)) :
              ~VariableSchema(Get(rawSchema.variables)[i].value).success
    THEN ParseFailure
    ELSE ParseSuccess([variables |-> RecordOf(ObjectEntries(Get(rawSchema.variables)))])

\* a LoadSchemaResult
LoadSchemaResult(success, schema, error) ==
    [success |-> success, schema |-> schema, error |-> error]

\* the part of loadSchema after rawSchema was parsed from the file
loadParsed(rawSchema) ==
    IF rawSchema = None
    THEN LoadSchemaResult(FALSE, None, Some(Text("Failed to parse schema: {0}", <<>>)))
    ELSE IF ~EnvSchemaDefinition(Get(rawSchema)).success
    THEN LoadSchemaResult(FALSE, None, Some(Text("Invalid schema structure: {0}", <<>>)))
    ELSE LoadSchemaResult(TRUE, EnvSchemaDefinition(Get(rawSchema)).data, None)

loadSchema(dir, schemaPath) ==
    IF ~ExistsSync(dir, Resolve(schemaPath))
    THEN LoadSchemaResult(FALSE, None, Some(Text("Schema file not found: {0}", <<>>)))
    ELSE IF ExtName(Resolve(schemaPath)) \notin {".json", ".js"}
    THEN LoadSchemaResult(FALSE, None,
                          Some(Text("Unsupported schema file format: {0}. Use .json or .js", <<>>)))
    ELSE loadParsed(ParsedContent(ExtName(Resolve(schemaPath)), dir[Resolve(schemaPath)]))

\* a LoadEnvResult: the entries dotenv.parse found in the file, or no success
loadEnvFile(dir, envPath) ==
    IF ~ExistsSync(dir, Resolve(envPath)) THEN [success |-> FALSE, env |-> <<>>]
    ELSE [success |-> TRUE, env |-> dir[Resolve(envPath)]]

RECURSIVE DefinedEntries(_)
\* loadProcessEnv(): the entries of process.env whose value is not undefined
DefinedEntries(entries) ==
    IF entries = <<>> THEN <<>>
    ELSE (IF Head(entries).value # None THEN <<Head(entries)>> ELSE <<>>)
         \o DefinedEntries(Tail(entries))

loadProcessEnv(processEnv) == DefinedEntries(ObjectEntries(processEnv))

RECURSIVE AssignAll(_, _)
\* { ...a, ...b }
AssignAll(a, b) ==
    IF b = <<>> THEN a
    ELSE AssignAll(Assign(a, Head(b).key, Head(b).value), Tail(b))

Spread(a, b) == AssignAll(AssignAll(<<>>, ObjectEntries(a)), ObjectEntries(b))

\* ------------------------------------------------------------------------
\* validateEnv and guardEnv
\* ------------------------------------------------------------------------

N_schema == <<"_", "s", "c", "h", "e", "m", "a">>

\* the options of validateEnv
Options(schemaPath, envPath, useProcessEnv, strictOpt) ==
    [schemaPath |-> schemaPath, envPath |-> envPath, useProcessEnv |-> useProcessEnv,
     strict |-> strictOpt]

\* the result validateEnv returns when there is no schema to validate against
SchemaError(message, schemaPath) ==
    [threw |-> FALSE, valid |-> FALSE,
     errors |-> <<Error(N_schema, message, "missing", None, None)>>,
     warnings |-> <<>>, parsed |-> <<>>, schemaPath |-> schemaPath]

\* let env = {}; if (options.useProcessEnv) env = loadProcessEnv()
ProcessEnvOf(processEnv, options) ==
    IF options.useProcessEnv THEN loadProcessEnv(processEnv) ELSE <<>>

\* if (options.envPath || !options.useProcessEnv) { ... env = { ...env, ...envResult.env } }
WithEnvFile(dir, options, env) ==
    IF options.envPath # None \/ ~options.useProcessEnv
    THEN (IF loadEnvFile(dir, IF options.envPath # None THEN Get(options.envPath)
                              ELSE Rel(".env")).success
          THEN Spread(env, loadEnvFile(dir, IF options.envPath # None
                                            THEN Get(options.envPath)
                                            ELSE Rel(".env")).env)
          ELSE env)
    ELSE env

\* the env validateEnv validates
EnvOf(dir, processEnv, options) ==
    WithEnvFile(dir, options, ProcessEnvOf(processEnv, options))

\* { ...result, schemaPath }
WithSchemaPath(r, schemaPath) ==
    IF r.threw THEN r
    ELSE [threw |-> FALSE, valid |-> r.valid, errors |-> r.errors,
          warnings |-> r.warnings, parsed |-> r.parsed, schemaPath |-> schemaPath]

\* validateEnv after findSchemaFile found schemaPath
validateLoaded(dir, processEnv, options, schemaPath, schemaResult) ==
    IF ~schemaResult.success \/ schemaResult.schema = None
    THEN SchemaError(IF schemaResult.error # None THEN Get(schemaResult.error)
                     ELSE Text("Failed to load schema", <<>>),
                     Some(schemaPath))
    ELSE WithSchemaPath(validate(Get(schemaResult.schema).variables,
                                 EnvOf(dir, processEnv, options), options.strict),
                        Some(schemaPath))

validateEnv(dir, processEnv, options) ==
    IF findSchemaFile(dir, options.schemaPath) = None
    THEN SchemaError(Text("No schema file found. Run \"npx env-guardian-cli init\" to create one.",
                          <<>>), None)
    ELSE validateLoaded(dir, processEnv, options, Get(findSchemaFile(dir, options.schemaPath)),
                        loadSchema(dir, Get(findSchemaFile(dir, options.schemaPath))))

\* what loadSchema returns for the file findSchemaFile found
LoadedSchema(dir, options) == loadSchema(dir, Get(findSchemaFile(dir, options.schemaPath)))

\* validateEnv found a schema file and loaded a schema from it
SchemaLoaded(dir, options) ==
    findSchemaFile(dir, options.schemaPath) # None /\ LoadedSchema(dir, options).success

\* the lines of the message: `  - ${e.variable}: ${e.message}` for each error
ErrorMessages(errors) ==
    [i \in 1..Len(errors) |-> [variable |-> errors[i].variable, message |-> errors[i].message]]

\* what a call of guardEnv does: it returns a value or throws an exception
Returns(value) == [threw |-> FALSE, value |-> Some(value), exception |-> None]

Throws(exception) == [threw |-> TRUE, value |-> None, exception |-> Some(exception)]

\* new Error(`Environment validation failed:\n${errorMessages}`)
ValidationFailed(errors) ==
    [name |-> "Error", head |-> "Environment validation failed:",
     lines |-> ErrorMessages(errors)]

\* the exception of a call that validate threw out of
S_TypeError == [name |-> "TypeError", head |-> "", lines |-> <<>>]

\* fault variant of guardOf: a result without a schema path is not reported
guardOfFoundOnly(result) ==
    IF result.threw THEN Throws(S_TypeError)
    ELSE IF ~result.valid /\ result.schemaPath # None
    THEN Throws(ValidationFailed(result.errors))
    ELSE Returns(result.parsed)

\* guardEnv after const result = validateEnv(options)
guardOf(result) ==
    IF result.threw THEN Throws(S_TypeError)
    ELSE IF ~result.valid THEN Throws(ValidationFailed(result.errors))
    ELSE Returns(result.parsed)

guardEnv(dir, processEnv, options) == guardOf(validateEnv(dir, processEnv, options))

\* ------------------------------------------------------------------------
\* The loader: inferType, inferFormat, inferSchemaFromEnv
\* ------------------------------------------------------------------------

\* ['true', 'false', '1', '0', 'yes', 'no']
InferBooleanTokens ==
    <<<<"t", "r", "u", "e">>, <<"f", "a", "l", "s", "e">>, <<"1">>, <<"0">>,
      <<"y", "e", "s">>, <<"n", "o">>>>

\* \d+(\.\d+)?$ matches all of u
DigitsAndFraction(u) ==
    /\ u # <<>>
    /\ \/ AllDigits(u)
       \/ \E i \in 2..(Len(u) - 1) :
            /\ u[i] = "."
            /\ AllDigits(SubSeq(u, 1, i - 1))
            /\ AllDigits(SubSeq(u, i + 1, Len(u)))

\* /^-?\d+(\.\d+)?$/.test(v)
NumericMatches(v) ==
    \/ DigitsAndFraction(v)
    \/ v # <<>> /\ v[1] = "-" /\ DigitsAndFraction(Tail(v))

\* fault variant of inferType: the number test comes before the boolean test
inferTypeNumberFirst(v) ==
    IF NumericMatches(v) /\ ~IsNaN(StringToNumber(v)) THEN "number"
    ELSE IF Includes(InferBooleanTokens, ToLowerCase(v)) THEN "boolean"
    ELSE "string"

inferType(v) ==
    IF Includes(InferBooleanTokens, ToLowerCase(v)) THEN "boolean"
    ELSE IF NumericMatches(v) /\ ~IsNaN(StringToNumber(v)) THEN "number"
    ELSE "string"

\* /^https?:\/\//.test(v)
HttpMatches(v) ==
    \/ StartsWith(v, <<"h", "t", "t", "p", ":", "/", "/">>)
    \/ StartsWith(v, <<"h", "t", "t", "p", "s", ":", "/", "/">>)

\* value.endsWith(c)
EndsWithChar(v, c) == v # <<>> /\ v[Len(v)] = c

\* the JSON test of inferFormat
LooksLikeJson(v) ==
    /\ \/ StartsWith(v, <<"{">>) /\ EndsWithChar(v, "}")
       \/ StartsWith(v, <<"[">>) /\ EndsWithChar(v, "]")
    /\ JsonParses(v)

\* inferFormat(v): a format name, or undefined (None)
inferFormat(v) ==
    IF HttpMatches(v) THEN Some(S_url)
    ELSE IF EmailMatches(v) THEN Some(S_email)
    ELSE IF UuidMatches(v) THEN Some(S_uuid)
    ELSE IF LooksLikeJson(v) THEN Some(S_json)
    ELSE IF IsPort(StringToNumber(v)) THEN Some(S_port)
    ELSE None

\* { type, ...(format && { format }), required: true, description }
Inferred(v) ==
    [type |-> inferType(v), format |-> inferFormat(v), required |-> TRUE,
     default |-> None, enum |-> None, pattern |-> None, min |-> None, max |-> None,
     minLength |-> None, maxLength |-> None]

RECURSIVE InferEach(_, _)
\* for (const [key, value] of Object.entries(env)) { variables[key] = ... }
InferEach(entries, acc) ==
    IF entries = <<>> THEN acc
    ELSE InferEach(Tail(entries),
                   Assign(acc, Head(entries).key, Inferred(Get(Head(entries).value))))

inferSchemaFromEnv(env) == InferEach(ObjectEntries(env), <<>>)

\* ------------------------------------------------------------------------
\* The inputs of the model
\* ------------------------------------------------------------------------

\* the longest generated raw value
MaxLen == 3

\* a Variable (a VariableSpec) after the schema was parsed
Variable(type, format, required, default, enum, pattern, min, max, minLength, maxLength) ==
    [type |-> type, format |-> format, required |-> required, default |-> default,
     enum |-> enum, pattern |-> pattern, min |-> min, max |-> max,
     minLength |-> minLength, maxLength |-> maxLength]

Types == {"string", "number", "boolean"}

P_digits == <<"^", "\\", "d", "+", "$">>

P_unclosed == <<"(">>

S_nope == <<"n", "o", "p", "e">>

E_12 == <<<<"1">>, <<"2">>>>

\* raw values chosen for the cases of the checks
RawValues ==
    {<<"8", "0", "8", "0">>,
     <<"a", "b", "c">>,
     <<"1">>,
     <<"2">>,
     <<"1", ".", "0">>,
     <<"0">>,
     <<"5">>,
     <<"1", "5">>,
     <<"1", "0">>,
     <<"0", ".", "5">>,
     <<"-", "1">>,
     <<"I", "n", "f", "i", "n", "i", "t", "y">>,
     <<"1", "e", "9", "9", "9">>,
     <<"t", "r", "u", "e">>,
     <<"Y", "e", "s">>,
     <<"o", "n">>,
     <<"f", "a", "l", "s", "e">>,
     <<"m", "a", "y", "b", "e">>,
     <<" ", "5">>,
     <<"6", "5", "5", "3", "5">>,
     <<"a", "1">>,
     <<"a", "a", "a", "a">>}

\* raw values chosen for the built-in formats
FormatRawValues ==
    {<<"h", "t", "t", "p", ":", "/", "/", "a">>,
     <<"h", "t", "t", "p", ":", "/", "/">>,
     <<"a", "@", "b", ".", "c">>,
     <<"a", "@", "b">>,
     <<"{", "}">>,
     <<"{", "a", "}">>,
     <<"Q", "U", "J", "D">>,
     <<"Q", "U", "I", "=">>,
     <<"f", "f">>,
     <<"f", "g">>,
     <<"a", "1">>,
     <<"a", "_">>,
     <<"0">>,
     <<"-", "1">>,
     <<"1", "0", "0">>,
     <<"1", "0", "1">>,
     <<"1", ".", "5">>,
     <<"1">>,
     <<"x">>,
     <<"8", "0", "8", "0">>,
     <<"6", "5", "5", "3", "5">>,
     <<"6", "5", "5", "3", "6">>,
     <<"9", "9", "9", "9", "9">>,
     <<"1", "2", "3", "e", "4", "5", "6", "7", "-", "e", "8", "9", "b", "-", "1", "2", "d", "3", "-", "a", "4", "5", "6", "-", "4", "2", "6", "6", "1", "4", "1", "7", "4", "0", "0", "0">>}

GenAlphabet == {"1", "0", "5", ".", "-", "e", "n", "o", "N", "O", " "}

\* every string of 1..MaxLen characters of GenAlphabet
GenRawValues == UNION {[1..n -> GenAlphabet] : n \in 1..MaxLen}

Formats == {None, Some(S_port), Some(S_regex \o P_digits), Some(S_regex \o P_unclosed)}

AllFormats == {Some(f) : f \in FormatNames \cup ObjectPrototypeNames}
                  \cup {None, Some(<<>>), Some(S_nope), Some(S_regex),
                        Some(S_regex \o P_digits), Some(S_regex \o P_unclosed)}

Enums == {None, Some(<<>>), Some(E_12)}

Patterns == {None, Some(P_digits), Some(P_unclosed)}

MinMaxes == {<<None, None>>, <<Some(Int2Num(1)), None>>, <<None, Some(Int2Num(10))>>,
             <<Some(Int2Num(1)), Some(Int2Num(10))>>,
             <<Some(Int2Num(10)), Some(Int2Num(1))>>}

Lengths == {<<None, None>>, <<Some(Int2Num(2)), None>>, <<None, Some(Int2Num(3))>>,
            <<Some(Int2Num(2)), Some(Int2Num(3))>>,
            <<Some(Int2Num(3)), Some(Int2Num(2))>>}

Defaults == {None, Some(StrVal(<<>>)), Some(StrVal(<<"x">>)), Some(NumVal(Int2Num(0))),
             Some(NumVal(Int2Num(3000))), Some(BoolVal(FALSE)), Some(BoolVal(TRUE))}

\* specs for the checks of a present value
CheckSpecs ==
    {Variable(t, f, TRUE, None, en, p, mm[1], mm[2], ln[1], ln[2]) :
        t \in Types, f \in Formats, en \in Enums, p \in Patterns,
        mm \in MinMaxes, ln \in Lengths}

\* specs for the handling of a missing value: bare, or with every constraint set
PresenceSpecs ==
    {Variable(t, None, r, d, None, None, None, None, None, None) :
        t \in Types, r \in BOOLEAN, d \in Defaults}
    \cup
    {Variable(t, Some(S_port), r, d, Some(E_12), Some(P_digits),
              Some(Int2Num(1)), Some(Int2Num(10)), Some(Int2Num(2)), Some(Int2Num(3))) :
        t \in Types, r \in BOOLEAN, d \in Defaults}

\* specs for the built-in formats
FormatSpecs ==
    {Variable(t, f, TRUE, None, None, None, None, None, None, None) :
        t \in {"string", "number"}, f \in AllFormats}

\* specs for the coercion of generated raw values
CoerceSpecs ==
    {Variable(t, None, TRUE, None, None, None, None, None, None, None) : t \in Types}
    \cup
    {Variable("number", None, TRUE, None, None, None,
              Some(Int2Num(1)), Some(Int2Num(10)), None, None),
     Variable("number", None, TRUE, None, Some(E_12), None, None, None, None, None)}

\* specs of the schemas of two variables
SmallSpecs ==
    {Variable("string", None, TRUE, None, None, None, None, None, None, None),
     Variable("number", None, TRUE, None, None, None,
              Some(Int2Num(1)), Some(Int2Num(10)), None, None),
     Variable("boolean", None, FALSE, Some(BoolVal(FALSE)), None, None, None, None,
              None, None),
     Variable("string", None, FALSE, None, None, None, None, None, None, None)}

N_A == <<"A">>

Names == {<<"A">>, <<"B">>, <<"1">>, <<"2">>}

N_EXTRA == <<"E", "X", "T", "R", "A">>

N_PATH_X == <<"P", "A", "T", "H", "_", "X">>

\* the environments of a schema of one variable: the key absent, undefined, or a string
EnvsOf(name, raws) ==
    {<<>>, <<Entry(name, None)>>} \cup {<<Entry(name, Some(r))>> : r \in raws}

SmallRaws == {None, Some(<<>>), Some(<<"5">>)}

EnvEntry(name, raw) == IF raw = None THEN <<>> ELSE <<Entry(name, raw)>>

N_PAT == <<"P", "A", "T">>

N_HOME == <<"H", "O", "M", "E">>

N_uX == <<"_", "X">>

N_U == <<"U">>

\* keys the schema does not declare: none, one, several of which some begin
\* with a system name and one has the value undefined, or two of which the
\* second is an array index
ExtraEnvs == {<<>>, <<Entry(N_EXTRA, Some(<<"y">>))>>,
              <<Entry(N_PATH_X, Some(<<"y">>)), Entry(N_EXTRA, Some(<<"y">>)),
                Entry(N_PAT, Some(<<"y">>)), Entry(N_HOME, Some(<<"y">>)),
                Entry(N_uX, Some(<<"y">>)), Entry(N_U, None)>>,
              <<Entry(N_EXTRA, Some(<<"y">>)), Entry(<<"7">>, Some(<<"y">>))>>}

\* the inputs of one call: schema.variables, env, options.strict
Input(v, e, s) == [variables |-> v, env |-> e, strict |-> s]

CheckInputs ==
    {Input(<<Entry(N_A, sp)>>, <<Entry(N_A, Some(r))>>, FALSE) :
        sp \in CheckSpecs, r \in RawValues}

PresenceInputs ==
    {Input(<<Entry(N_A, sp)>>, e, s) :
        sp \in PresenceSpecs, e \in EnvsOf(N_A, {<<>>, <<"5">>}), s \in BOOLEAN}

FormatInputs ==
    {Input(<<Entry(N_A, sp)>>, <<Entry(N_A, Some(r))>>, FALSE) :
        sp \in FormatSpecs, r \in FormatRawValues}

CoerceInputs ==
    {Input(<<Entry(N_A, sp)>>, <<Entry(N_A, Some(r))>>, FALSE) :
        sp \in CoerceSpecs, r \in GenRawValues}

\* the inputs of the calls made in sequence
RepeatSpecs ==
    {Variable("number", None, TRUE, None, None, None,
              Some(Int2Num(1)), Some(Int2Num(10)), None, None),
     Variable("boolean", None, FALSE, Some(BoolVal(FALSE)), None, None, None, None,
              None, None)}

RepeatInputs ==
    {Input(<<Entry(N_A, sp)>>, EnvEntry(N_A, r) \o <<Entry(N_EXTRA, Some(<<"y">>))>>, s) :
        sp \in RepeatSpecs, r \in {None, Some(<<"5">>), Some(<<"0">>)}, s \in BOOLEAN}

\* the longest sequence of calls
MaxCalls == 3

\* the strings given to inferType and inferFormat, and the values of the
\* environments given to inferSchemaFromEnv
InferValues ==
    GenRawValues \cup RawValues \cup FormatRawValues
    \cup {<<>>, <<"y", "e", "s">>, <<"Y", "E", "S">>, <<"N", "o">>, <<"T", "R", "U", "E">>,
          <<"F", "a", "l", "s", "e">>, <<"o", "f", "f">>, <<"-", "4", "2">>,
          <<"3", ".", "1", "4">>, <<"1", ".">>, <<".", "5">>, <<"+", "1">>,
          <<"1", ".", "2", ".", "3">>, <<"1", "-">>, <<"-", "-", "1">>,
          <<"h", "t", "t", "p", "s", ":", "/", "/", "a", ".", "b">>,
          <<"h", "t", "t", "p", ":", "/", "/", "a", ":", "b">>,
          <<"[", "1", "]">>, <<"[", "1", ",", "]">>, <<"{", "}", " ">>}

\* the environments of inferSchemaFromEnv: one value, alone or after another
InferEnvsOf(v) ==
    {<<Entry(N_A, Some(v))>>,
     <<Entry(<<"B">>, Some(<<"t", "r", "u", "e">>)), Entry(N_A, Some(v))>>}

\* a definition of a variable as a schema file gives it: required may be unset
Definition(type, format, required, default) ==
    [type |-> type, format |-> format, required |-> required, default |-> default,
     enum |-> None, pattern |-> None, min |-> None, max |-> None,
     minLength |-> None, maxLength |-> None]

Definitions ==
    {Definition(t, None, r, d) :
        t \in {"string", "number"}, r \in {None, Some(TRUE), Some(FALSE)},
        d \in {None, Some(NumVal(Int2Num(3000)))}}
    \cup {Definition("float", None, None, None),
          Definition("string", Some(S_valueOf), None, None),
          Definition("string", Some(S_port), None, None)}

\* a JSON value that is an object with the member variables
SchemaObject(defs) == [kind |-> "object", variables |-> Some(defs)]

\* the texts of the schema files: JSON text of a schema of one or two
\* variables, of an object without variables, of a number, the same after
\* module.exports =, and text that is not JSON
Contents ==
    {Content(FALSE, TRUE, SchemaObject(<<Entry(N_A, d)>>)) : d \in Definitions}
    \cup {Content(x, TRUE, SchemaObject(<<Entry(<<"B">>, Definition("string", None, None, None)),
                                          Entry(N_A, Definition("number", None, Some(FALSE),
                                                                Some(NumVal(Int2Num(3000)))))>>)) :
             x \in BOOLEAN}
    \cup {Content(FALSE, TRUE, [kind |-> "object", variables |-> None]),
          Content(FALSE, TRUE, [kind |-> "number", variables |-> None]),
          Content(FALSE, FALSE, [kind |-> "none", variables |-> None])}

\* the schema files of a working directory: none, one, or two default ones
SchemaDirs ==
    {<<>>}
    \cup {(Resolve(Rel(n)) :> c) :
             n \in {"env.schema.json", "env.schema.js", "custom.json", "schema.yaml"},
             c \in Contents}
    \cup {(Resolve(Rel("env.schema.json")) :> c) @@ (Resolve(Rel(".env.schema.json")) :> c2) :
             c \in {Content(FALSE, FALSE, [kind |-> "none", variables |-> None])},
             c2 \in {Content(FALSE, TRUE,
                             SchemaObject(<<Entry(N_A, Definition("string", None, None, None))>>))}}

\* the env files of a working directory: no .env, or one that gives A
EnvDirs ==
    {<<>>, Resolve(Rel(".env")) :> <<Entry(N_A, Some(<<"5">>))>>,
     Resolve(Rel(".env")) :> <<Entry(N_A, Some(<<>>)), Entry(N_EXTRA, Some(<<"y">>))>>}

Dirs == {s @@ e : s \in SchemaDirs, e \in EnvDirs}

ProcessEnvs == {<<Entry(<<"B">>, Some(<<"b">>)), Entry(N_A, Some(<<"a", "b", "c">>))>>,
                <<Entry(N_U, None)>>}

OptionsSet ==
    {Options(sp, ep, u, st) :
        sp \in {None, Some(Rel("custom.json")), Some(Rel("schema.yaml")),
                Some(Rel("missing.json"))},
        ep \in {None, Some(Rel(".env"))}, u \in BOOLEAN, st \in BOOLEAN}

\* a call of validate: its inputs and the result it returned
Call(in, out) == [in |-> in, out |-> out]

PairInputsOf(n1) ==
    {Input(<<Entry(n1, s1), Entry(n2, s2)>>,
           EnvEntry(n2, r2) \o x \o EnvEntry(n1, r1), s) :
        n2 \in Names \ {n1}, s1 \in SmallSpecs, s2 \in SmallSpecs,
        r1 \in SmallRaws, r2 \in SmallRaws, x \in ExtraEnvs, s \in BOOLEAN}

PairInputs == UNION {PairInputsOf(n1) : n1 \in Names}

\* ------------------------------------------------------------------------
\* The state machine: one call of validate or of isValid on given inputs
\* ------------------------------------------------------------------------

\* calls: the calls of validate made so far, each with its inputs and its result
\* files, processEnv, options: the files of the working directory, process.env
\* and the options of a call of validateEnv or guardEnv
\* value: the string given to inferType or inferFormat
VARIABLES variables, env, strict, pc, result, answer, calls, files, processEnv, options,
          value

vars == <<variables, env, strict, pc, result, answer, calls, files, processEnv, options, value>>

\* a direct call of validate reads no file and has no options but strict
NoFiles ==
    /\ files = <<>>
    /\ processEnv = <<>>
    /\ options = Options(None, None, FALSE, FALSE)
    /\ value = <<>>

\* the state before a call on one of the inputs S
InitOf(S) ==
    /\ \E in \in S :
         /\ variables = in.variables
         /\ env = in.env
         /\ strict = in.strict
    /\ pc = "ready"
    /\ result = None
    /\ answer = None
    /\ calls = <<>>
    /\ NoFiles

Init ==
    \/ InitOf(CheckInputs)
    \/ InitOf(PresenceInputs)
    \/ InitOf(FormatInputs)
    \/ InitOf(CoerceInputs)
    \/ InitOf(PairInputs)

\* the result r with the errors of an earlier result before its own
Retained(earlier, r) == [r EXCEPT !.errors = earlier.errors \o @]

\* fault variant of Validate: the errors array is kept between calls
ValidateRetaining ==
    /\ pc = "ready"
    /\ result' = Some(IF calls = <<>> THEN validate(variables, env, strict)
                      ELSE Retained(calls[Len(calls)].out,
                                    validate(variables, env, strict)))
    /\ calls' = Append(calls, Call(Input(variables, env, strict), Get(result')))
    /\ pc' = "validated"
    /\ UNCHANGED <<variables, env, strict, answer, files, processEnv, options, value>>

\* fault variant of Validate: one errors array is shared by every result, so a
\* call also adds its errors to the results returned earlier
ValidateSharing ==
    /\ pc = "ready"
    /\ result' = Some(IF calls = <<>> THEN validate(variables, env, strict)
                      ELSE Retained(calls[Len(calls)].out,
                                    validate(variables, env, strict)))
    /\ calls' = Append([i \in 1..Len(calls) |->
                          Call(calls[i].in,
                               [calls[i].out EXCEPT !.errors = Get(result').errors])],
                       Call(Input(variables, env, strict), Get(result')))
    /\ pc' = "validated"
    /\ UNCHANGED <<variables, env, strict, answer, files, processEnv, options, value>>

\* result = validate(schema, env, {strict})
Validate ==
    /\ pc = "ready"
    /\ result' = Some(validate(variables, env, strict))
    /\ calls' = Append(calls, Call(Input(variables, env, strict), Get(result')))
    /\ pc' = "validated"
    /\ UNCHANGED <<variables, env, strict, answer, files, processEnv, options, value>>

\* answer = isValid(schema, env)
IsValid ==
    /\ pc = "ready"
    /\ answer' = Some(isValid(variables, env))
    /\ pc' = "answered"
    /\ UNCHANGED <<variables, env, strict, result, calls, files, processEnv, options, value>>

Next == Validate \/ IsValid

Spec == Init /\ [][Next]_vars

\* the caller prepares another call of validate, on any of the inputs S
AnotherOf(S) ==
    /\ pc = "validated"
    /\ Len(calls) < MaxCalls
    /\ \E in \in S :
         /\ variables' = in.variables
         /\ env' = in.env
         /\ strict' = in.strict
    /\ pc' = "ready"
    /\ result' = None
    /\ UNCHANGED <<answer, calls, files, processEnv, options, value>>

Another == AnotherOf(RepeatInputs)

InitRepeat == InitOf(RepeatInputs)

NextRepeat == Validate \/ Another

\* a sequence of calls of validate in one process
SpecRepeat == InitRepeat /\ [][NextRepeat]_vars

\* the locals of validateEnv after its call of validate, or after it returned
\* for want of a schema: the schema's variables, env and options.strict
LocalsOfValidateEnv ==
    /\ variables' = IF SchemaLoaded(files, options)
                    THEN Get(LoadedSchema(files, options).schema).variables ELSE <<>>
    /\ env' = IF SchemaLoaded(files, options) THEN EnvOf(files, processEnv, options) ELSE <<>>
    /\ strict' = options.strict

\* result = validateEnv(options)
ValidateEnv ==
    /\ pc = "ready"
    /\ result' = Some(validateEnv(files, processEnv, options))
    /\ LocalsOfValidateEnv
    /\ pc' = "validated"
    /\ UNCHANGED <<answer, calls, files, processEnv, options, value>>

\* answer = guardEnv(options), or guardEnv threw
GuardEnv ==
    /\ pc = "ready"
    /\ result' = Some(validateEnv(files, processEnv, options))
    /\ LocalsOfValidateEnv
    /\ answer' = Some(guardEnv(files, processEnv, options))
    /\ pc' = "guarded"
    /\ UNCHANGED <<calls, files, processEnv, options, value>>

\* the state before a call of validateEnv or guardEnv
InitEnv ==
    /\ files \in Dirs
    /\ processEnv \in ProcessEnvs
    /\ options \in OptionsSet
    /\ value = <<>>
    /\ variables = <<>>
    /\ env = <<>>
    /\ strict = FALSE
    /\ pc = "ready"
    /\ result = None
    /\ answer = None
    /\ calls = <<>>

NextEnv == ValidateEnv \/ GuardEnv

\* one call of validateEnv or of guardEnv in a working directory
SpecEnv == InitEnv /\ [][NextEnv]_vars

\* answer = inferType(value)
InferType ==
    /\ pc = "start"
    /\ answer' = Some(inferType(value))
    /\ pc' = "typed"
    /\ UNCHANGED <<variables, env, strict, result, calls, files, processEnv, options, value>>

\* answer = inferFormat(value)
InferFormat ==
    /\ pc = "start"
    /\ answer' = Some(inferFormat(value))
    /\ pc' = "formatted"
    /\ UNCHANGED <<variables, env, strict, result, calls, files, processEnv, options, value>>

\* variables = inferSchemaFromEnv(env), ready for validate({variables}, env)
InferSchemaFromEnv ==
    /\ pc = "start"
    /\ variables' = inferSchemaFromEnv(env)
    /\ pc' = "ready"
    /\ UNCHANGED <<env, strict, result, answer, calls, files, processEnv, options, value>>

\* the state before a call of the loader: a string, and an environment that
\* holds it
InitInfer ==
    /\ value \in InferValues
    /\ env \in InferEnvsOf(value)
    /\ variables = <<>>
    /\ strict = FALSE
    /\ pc = "start"
    /\ result = None
    /\ answer = None
    /\ calls = <<>>
    /\ files = <<>>
    /\ processEnv = <<>>
    /\ options = Options(None, None, FALSE, FALSE)

NextInfer == InferType \/ InferFormat \/ InferSchemaFromEnv \/ Validate

\* a schema is inferred from an environment, and the environment validated
\* against it
SpecInfer == InitInfer /\ [][NextInfer]_vars

\* ------------------------------------------------------------------------
\* Properties of validate's result
\* ------------------------------------------------------------------------

\* validate returned a result
Returned == pc = "validated" /\ ~Get(result).threw

\* the declared variables: the entries of schema.variables
Declared == {variables[i] : i \in 1..Len(variables)}

\* the raw value of a variable: undefined (None) or a string
RawOf(name) == Lookup(env, name)

Absent(raw) == raw = None \/ raw = Some(<<>>)

ErrorsOf(name) == SelectSeq(Get(result).errors, LAMBDA e : e.variable = name)

WarningsOf(name) == SelectSeq(Get(result).warnings, LAMBDA w : w.variable = name)

HasParsed(name) == HasKey(Get(result).parsed, name)

ParsedOf(name) == Lookup(Get(result).parsed, name)

\* the single error of a variable is of the given type
OneError(name, type) == Len(ErrorsOf(name)) = 1 /\ ErrorsOf(name)[1].type = type

\* C1: the result of validate has valid = true if and only if its errors are
\* empty, whatever its warnings (default_applied, unused) are
C1_ValidIffNoErrors ==
    Returned => (Get(result).valid <=> Get(result).errors = <<>>)

\* a valid result that carries a default_applied and an unused warning
C1_Witness ==
    /\ Returned
    /\ Get(result).valid
    /\ \E i, j \in 1..Len(Get(result).warnings) :
         /\ Get(result).warnings[i].type = "default_applied"
         /\ Get(result).warnings[j].type = "unused"

\* C2: a declared variable with required = true and no default whose raw value
\* is undefined or the empty string has exactly one error, of type missing,
\* and no entry in parsed
C2_RequiredMissing ==
    Returned =>
      \A d \in Declared :
        (d.value.required /\ d.value.default = None /\ Absent(RawOf(d.key))) =>
          /\ OneError(d.key, "missing")
          /\ ~HasParsed(d.key)

\* two required variables, one undefined and one empty, both reported missing
C2_Witness ==
    /\ Returned
    /\ \E d1, d2 \in Declared :
         /\ d1.value.required /\ d1.value.default = None /\ RawOf(d1.key) = None
         /\ d2.value.required /\ d2.value.default = None /\ RawOf(d2.key) = Some(<<>>)
         /\ OneError(d1.key, "missing") /\ OneError(d2.key, "missing")

\* C3: a declared variable with a default (required or not) whose raw value is
\* undefined or the empty string has exactly one warning, of type
\* default_applied, no error, and parsed[name] is the declared default
C3_DefaultApplied ==
    Returned =>
      \A d \in Declared :
        (d.value.default # None /\ Absent(RawOf(d.key))) =>
          /\ Len(WarningsOf(d.key)) = 1
          /\ WarningsOf(d.key)[1].type = "default_applied"
          /\ ErrorsOf(d.key) = <<>>
          /\ HasParsed(d.key)
          /\ ParsedOf(d.key) = Get(d.value.default)

\* a required variable with the default 3000 and an empty raw value, in strict mode
C3_Witness ==
    /\ Returned
    /\ strict
    /\ \E d \in Declared :
         /\ d.value.required
         /\ d.value.default = Some(NumVal(Int2Num(3000)))
         /\ RawOf(d.key) = Some(<<>>)
         /\ ParsedOf(d.key) = NumVal(Int2Num(3000))
         /\ Len(WarningsOf(d.key)) = 1

\* C4: a declared variable with required = false and no default whose raw
\* value is undefined or the empty string has no error, no warning and no key
\* in parsed
C4_OptionalSkipped ==
    Returned =>
      \A d \in Declared :
        (~d.value.required /\ d.value.default = None /\ Absent(RawOf(d.key))) =>
          /\ ErrorsOf(d.key) = <<>>
          /\ WarningsOf(d.key) = <<>>
          /\ ~HasParsed(d.key)

\* an optional variable with an empty raw value next to one that is parsed
C4_Witness ==
    /\ Returned
    /\ \E d1, d2 \in Declared :
         /\ ~d1.value.required /\ d1.value.default = None /\ RawOf(d1.key) = Some(<<>>)
         /\ ~HasParsed(d1.key)
         /\ HasParsed(d2.key)

\* what validateVariable returns for a declared variable
OutcomeOf(d) == validateVariable(d.key, RawOf(d.key), d.value)

\* the warnings of a variable that validateVariable produced
OwnWarningsOf(name) ==
    SelectSeq(Get(result).warnings, LAMBDA w : w.variable = name /\ w.type # "unused")

\* C5: validateVariable never returns both an error and a warning, and in
\* validate's result a declared variable has at most one error and at most one
\* warning other than unused, never both
C5_AtMostOne ==
    pc = "validated" =>
      \A d \in Declared :
        /\ ~OutcomeOf(d).threw =>
             ~(OutcomeOf(d).error # None /\ OutcomeOf(d).warning # None)
        /\ ~Get(result).threw =>
             /\ Len(ErrorsOf(d.key)) <= 1
             /\ Len(OwnWarningsOf(d.key)) <= 1
             /\ ~(ErrorsOf(d.key) # <<>> /\ OwnWarningsOf(d.key) # <<>>)

\* two variables, one with an error and one with a warning, under strict mode
\* with an unused key
C5_Witness ==
    /\ Returned
    /\ \E d1, d2 \in Declared :
         /\ Len(ErrorsOf(d1.key)) = 1 /\ OwnWarningsOf(d1.key) = <<>>
         /\ Len(OwnWarningsOf(d2.key)) = 1 /\ ErrorsOf(d2.key) = <<>>
    /\ \E i \in 1..Len(Get(result).warnings) : Get(result).warnings[i].type = "unused"

\* the raw value of a declared variable is a non-empty string
Present(d) == ~Absent(RawOf(d.key))

\* the checks in the order the contract gives them
CheckOrder == <<"coercion", "enum", "format", "range", "pattern">>

\* the raw value v of a variable of the given spec fails the named check
FailsCheck(check, v, spec) ==
    CASE check = "coercion" -> ~coerceValue(v, spec.type).success
      [] check = "enum"     -> EnumFails(v, spec)
      [] check = "format"   -> FormatStep(v, spec) # "pass"
      [] check = "range"    ->
            /\ coerceValue(v, spec.type).success
            /\ \/ BelowMin(coerceValue(v, spec.type).value, spec)
               \/ AboveMax(coerceValue(v, spec.type).value, spec)
               \/ TooShort(coerceValue(v, spec.type).value, spec)
               \/ TooLong(coerceValue(v, spec.type).value, spec)
      [] OTHER              -> PatternFails(v, spec)

\* the error type of a failing check
ErrorTypeOf(check) ==
    CASE check = "coercion" -> "invalid_type"
      [] check = "enum"     -> "invalid_enum"
      [] check = "format"   -> "invalid_format"
      [] check = "range"    -> "invalid_range"
      [] OTHER              -> "invalid_format"

\* check number k is the first one that v fails
FirstFailing(k, v, spec) ==
    /\ FailsCheck(CheckOrder[k], v, spec)
    /\ \A j \in 1..(k - 1) : ~FailsCheck(CheckOrder[j], v, spec)

\* C6: for a present raw value the only error reported is that of the first
\* failing check in the order coercion, enum, format, range or length,
\* pattern; a failed coercion gives invalid_type with expected = the declared
\* type and received = the raw value; a value that fails no check has no error
C6_FirstFailingCheck ==
    Returned =>
      \A d \in Declared :
        Present(d) =>
          /\ \A k \in 1..Len(CheckOrder) :
               FirstFailing(k, Get(RawOf(d.key)), d.value) =>
                 /\ OneError(d.key, ErrorTypeOf(CheckOrder[k]))
                 /\ ~HasParsed(d.key)
                 /\ k = 1 =>
                      /\ ErrorsOf(d.key)[1].expected = Some(TypeString(d.value.type))
                      /\ ErrorsOf(d.key)[1].received = RawOf(d.key)
          /\ (\A k \in 1..Len(CheckOrder) :
                ~FailsCheck(CheckOrder[k], Get(RawOf(d.key)), d.value))
               => ErrorsOf(d.key) = <<>> /\ HasParsed(d.key)

\* a value that violates the enum, the format, the length and the pattern is
\* reported as invalid_enum
C6_Witness ==
    /\ Returned
    /\ \E d \in Declared :
         /\ Present(d)
         /\ ~FailsCheck("coercion", Get(RawOf(d.key)), d.value)
         /\ FailsCheck("enum", Get(RawOf(d.key)), d.value)
         /\ FailsCheck("format", Get(RawOf(d.key)), d.value)
         /\ FailsCheck("range", Get(RawOf(d.key)), d.value)
         /\ FailsCheck("pattern", Get(RawOf(d.key)), d.value)
         /\ OneError(d.key, "invalid_enum")

\* C7: coercion to number succeeds exactly when the raw string parses to a
\* finite number, and then the parsed value is that number; a raw string whose
\* parse is NaN or infinite has the single error invalid_type
C7_NumberCoercionFinite ==
    Returned =>
      \A d \in Declared :
        (Present(d) /\ d.value.type = "number") =>
          IF StringToNumber(Get(RawOf(d.key))).kind = "fin"
          THEN /\ \A i \in 1..Len(ErrorsOf(d.key)) :
                    ErrorsOf(d.key)[i].type # "invalid_type"
               /\ HasParsed(d.key) =>
                    ParsedOf(d.key) = NumVal(StringToNumber(Get(RawOf(d.key))))
          ELSE OneError(d.key, "invalid_type") /\ ~HasParsed(d.key)

\* the words of boolean coercion
TrueWords == {<<"t", "r", "u", "e">>, <<"1">>, <<"y", "e", "s">>, <<"o", "n">>}

FalseWords == {<<"f", "a", "l", "s", "e">>, <<"0">>, <<"n", "o">>, <<"o", "f", "f">>}

\* the spec has no check after coercion that applies to a boolean
OnlyCoercion(spec) ==
    /\ (spec.enum = None \/ Get(spec.enum) = <<>>)
    /\ spec.format = None
    /\ spec.pattern = None

\* C8: for type boolean a raw string whose lower-cased form is true, 1, yes or
\* on coerces to true, one whose lower-cased form is false, 0, no or off to
\* false (the parsed value, unless a later check rejects the raw string); every
\* other non-empty raw string has the single error invalid_type and no parsed
\* value
C8_BooleanCoercion ==
    Returned =>
      \A d \in Declared :
        (Present(d) /\ d.value.type = "boolean") =>
          IF ToLowerCase(Get(RawOf(d.key))) \in TrueWords \cup FalseWords
          THEN /\ \A i \in 1..Len(ErrorsOf(d.key)) :
                    ErrorsOf(d.key)[i].type # "invalid_type"
               /\ HasParsed(d.key) =>
                    ParsedOf(d.key) = BoolVal(ToLowerCase(Get(RawOf(d.key))) \in TrueWords)
               /\ OnlyCoercion(d.value) => HasParsed(d.key)
          ELSE OneError(d.key, "invalid_type") /\ ~HasParsed(d.key)

\* the raw value Yes of a boolean variable is parsed as true
C8_Witness ==
    /\ Returned
    /\ \E d \in Declared :
         /\ d.value.type = "boolean"
         /\ RawOf(d.key) = Some(<<"Y", "e", "s">>)
         /\ HasParsed(d.key)
         /\ ParsedOf(d.key) = BoolVal(TRUE)

\* the members of an enum, as a set
Members(spec) == {Get(spec.enum)[i] : i \in 1..Len(Get(spec.enum))}

\* the spec has an enum with at least one member
HasEnum(spec) == spec.enum # None /\ Get(spec.enum) # <<>>

\* C9: a non-empty enum is compared with the raw string: a raw value equal to
\* a member has no invalid_enum error whatever the declared type; a present
\* raw value that coerces and equals no member has the single error
\* invalid_enum with expected = the members joined by " | ", even if its
\* coerced value is that of a member; an empty or absent enum gives no
\* invalid_enum error
C9_EnumOnRawString ==
    Returned =>
      \A d \in Declared :
        Present(d) =>
          IF HasEnum(d.value) /\ Get(RawOf(d.key)) \notin Members(d.value)
          THEN ~FailsCheck("coercion", Get(RawOf(d.key)), d.value) =>
                 /\ OneError(d.key, "invalid_enum")
                 /\ ErrorsOf(d.key)[1].expected
                      = Some(Join(Get(d.value.enum), <<" ", "|", " ">>))
                 /\ ErrorsOf(d.key)[1].received = RawOf(d.key)
                 /\ ~HasParsed(d.key)
          ELSE \A i \in 1..Len(ErrorsOf(d.key)) :
                 ErrorsOf(d.key)[i].type # "invalid_enum"

\* type number, enum ["1", "2"], raw value 1.0: rejected although Number("1.0")
\* is Number("1")
C9_Witness ==
    /\ Returned
    /\ \E d \in Declared :
         /\ d.value.type = "number"
         /\ d.value.enum = Some(E_12)
         /\ RawOf(d.key) = Some(<<"1", ".", "0">>)
         /\ StringToNumber(<<"1", ".", "0">>) = StringToNumber(<<"1">>)
         /\ OneError(d.key, "invalid_enum")

\* the variable is a number with a bound whose raw value passed the checks
\* before the range check
ReachesRange(d) ==
    /\ Present(d)
    /\ d.value.type = "number"
    /\ (d.value.min # None \/ d.value.max # None)
    /\ ~FailsCheck("coercion", Get(RawOf(d.key)), d.value)
    /\ ~FailsCheck("enum", Get(RawOf(d.key)), d.value)
    /\ ~FailsCheck("format", Get(RawOf(d.key)), d.value)

\* the coerced value of a variable that reaches the range check
NumberOf(d) == StringToNumber(Get(RawOf(d.key)))

UnderMin(d) == d.value.min # None /\ NumLess(NumberOf(d), Get(d.value.min))

OverMax(d) == d.value.max # None /\ NumGreater(NumberOf(d), Get(d.value.max))

\* min <= v <= max, each bound only if set
InRange(d) ==
    /\ d.value.min # None => NumGeq(NumberOf(d), Get(d.value.min))
    /\ d.value.max # None => NumLeq(NumberOf(d), Get(d.value.max))

HasRangeError(d) ==
    \E i \in 1..Len(ErrorsOf(d.key)) : ErrorsOf(d.key)[i].type = "invalid_range"

\* the single error of d is the one for a value under the minimum
MinErrorReported(d) ==
    /\ OneError(d.key, "invalid_range")
    /\ ErrorsOf(d.key)[1].expected
         = Some(<<">", "=", " ">> \o NumberToString(Get(d.value.min)))
    /\ ErrorsOf(d.key)[1].message.tpl = "Value {0} is less than minimum {1}"

\* the single error of d is the one for a value over the maximum
MaxErrorReported(d) ==
    /\ OneError(d.key, "invalid_range")
    /\ ErrorsOf(d.key)[1].expected
         = Some(<<"<", "=", " ">> \o NumberToString(Get(d.value.max)))
    /\ ErrorsOf(d.key)[1].message.tpl = "Value {0} is greater than maximum {1}"

\* a value the range check accepts is parsed as the number, unless the
\* pattern check that follows rejects the raw string
AcceptedIsParsed(d) ==
    (InRange(d) /\ ~FailsCheck("pattern", Get(RawOf(d.key)), d.value)) =>
      HasParsed(d.key) /\ ParsedOf(d.key) = NumVal(NumberOf(d))

\* C10 as stated: a value that reaches the range check is accepted iff
\* min <= v <= max; v < min gives invalid_range with expected ">= min" and the
\* less-than-minimum message; v > max gives invalid_range with expected
\* "<= max" and the greater-than-maximum message; an accepted value is parsed
\* as the number
C10_RangeAsStated ==
    Returned =>
      \A d \in Declared :
        ReachesRange(d) =>
          /\ InRange(d) <=> ~HasRangeError(d)
          /\ UnderMin(d) => MinErrorReported(d)
          /\ OverMax(d) => MaxErrorReported(d)
          /\ AcceptedIsParsed(d)

\* C10 amended: as stated, except that v > max gives the "<= max" error only
\* when v is not also under the minimum (min is checked first)
C10_RangeMinFirst ==
    Returned =>
      \A d \in Declared :
        ReachesRange(d) =>
          /\ InRange(d) <=> ~HasRangeError(d)
          /\ UnderMin(d) => MinErrorReported(d)
          /\ (OverMax(d) /\ ~UnderMin(d)) => MaxErrorReported(d)
          /\ AcceptedIsParsed(d)

\* min = 10, max = 1 and the value 5: under the minimum and over the maximum,
\* reported as under the minimum
C10_Witness ==
    /\ Returned
    /\ \E d \in Declared :
         /\ ReachesRange(d)
         /\ UnderMin(d) /\ OverMax(d)
         /\ MinErrorReported(d)

\* the variable is a string with a length bound whose raw value passed the
\* checks before the length check
ReachesLength(d) ==
    /\ Present(d)
    /\ d.value.type = "string"
    /\ (d.value.minLength # None \/ d.value.maxLength # None)
    /\ ~FailsCheck("enum", Get(RawOf(d.key)), d.value)
    /\ ~FailsCheck("format", Get(RawOf(d.key)), d.value)

\* minLength <= length(value) <= maxLength, each bound only if set
InLength(d) ==
    /\ d.value.minLength # None =>
         NumGeq(Int2Num(Len(Get(RawOf(d.key)))), Get(d.value.minLength))
    /\ d.value.maxLength # None =>
         NumLeq(Int2Num(Len(Get(RawOf(d.key)))), Get(d.value.maxLength))

\* C11: a string value that reaches the length check is accepted iff
\* minLength <= length(value) <= maxLength (each bound only if set); a shorter
\* or longer value has the single error invalid_range and no parsed value; an
\* accepted value is parsed as the string unless the pattern check rejects it
C11_StringLength ==
    Returned =>
      \A d \in Declared :
        ReachesLength(d) =>
          /\ InLength(d) <=> ~HasRangeError(d)
          /\ ~InLength(d) => OneError(d.key, "invalid_range") /\ ~HasParsed(d.key)
          /\ (InLength(d) /\ ~FailsCheck("pattern", Get(RawOf(d.key)), d.value)) =>
               HasParsed(d.key) /\ ParsedOf(d.key) = StrVal(Get(RawOf(d.key)))

\* minLength = 2, maxLength = 3: a value of length 3 is parsed, and so the
\* upper bound is inclusive
C11_Witness ==
    /\ Returned
    /\ \E d \in Declared :
         /\ ReachesLength(d)
         /\ d.value.minLength = Some(Int2Num(2))
         /\ d.value.maxLength = Some(Int2Num(3))
         /\ Len(Get(RawOf(d.key))) = 3
         /\ HasParsed(d.key)

\* the spec without the constraints of another type: min and max unless the
\* type is number, minLength and maxLength unless the type is string
OwnConstraints(spec) ==
    [spec EXCEPT !.min = IF spec.type = "number" THEN @ ELSE None,
                 !.max = IF spec.type = "number" THEN @ ELSE None,
                 !.minLength = IF spec.type = "string" THEN @ ELSE None,
                 !.maxLength = IF spec.type = "string" THEN @ ELSE None]

\* the schema with every spec replaced by f(spec)
MapSpecs(f(_), vs) == [i \in 1..Len(vs) |-> Entry(vs[i].key, f(vs[i].value))]

\* C12: min and max of a spec whose type is not number, and minLength and
\* maxLength of a spec whose type is not string, never change the outcome:
\* the result is the result for the schema without them
C12_ForeignConstraintsIgnored ==
    pc = "validated" =>
      Get(result) = validate(MapSpecs(OwnConstraints, variables), env, strict)

\* a string that is a number under the declared min, and a number whose text
\* is shorter than the declared minLength, are parsed
C12_Witness ==
    /\ Returned
    /\ \E d \in Declared :
         /\ Present(d)
         /\ HasParsed(d.key)
         /\ \/ /\ d.value.type = "string"
               /\ d.value.min # None
               /\ NumLess(StringToNumber(Get(RawOf(d.key))), Get(d.value.min))
            \/ /\ d.value.type = "number"
               /\ d.value.minLength # None
               /\ NumLess(Int2Num(Len(Get(RawOf(d.key)))), Get(d.value.minLength))

\* the format of the spec begins with regex:
HasRegexFormat(spec) ==
    spec.format # None /\ StartsWith(Get(spec.format), <<"r", "e", "g", "e", "x", ":">>)

\* what follows regex: in the format
RegexOf(spec) == SubSeq(Get(spec.format), 7, Len(Get(spec.format)))

\* the schema with the format of the variable `name` removed
WithoutFormat(vs, name) ==
    [i \in 1..Len(vs) |->
       IF vs[i].key = name THEN Entry(name, [vs[i].value EXCEPT !.format = None])
       ELSE vs[i]]

\* the variable has a regex: format and its raw value reaches the format step
ReachesRegexFormat(d) ==
    /\ Present(d)
    /\ HasRegexFormat(d.value)
    /\ ~FailsCheck("coercion", Get(RawOf(d.key)), d.value)
    /\ ~FailsCheck("enum", Get(RawOf(d.key)), d.value)

\* C13: with a format regex:P, a raw value that reaches the format step and
\* matches P passes it (the result is that of the schema without the format);
\* one that does not match has the single error invalid_format with expected
\* = P; and when P does not compile every such value has the single error
\* invalid_format whose message names P
C13_RegexFormat ==
    Returned =>
      \A d \in Declared :
        ReachesRegexFormat(d) =>
          IF ~RegExpCompiles(RegexOf(d.value))
          THEN /\ OneError(d.key, "invalid_format")
               /\ ErrorsOf(d.key)[1].message
                    = Text("Invalid regex pattern: {0}", <<RegexOf(d.value)>>)
               /\ ~HasParsed(d.key)
          ELSE IF RegExpTest(RegexOf(d.value), Get(RawOf(d.key)))
          THEN Get(result) = validate(WithoutFormat(variables, d.key), env, strict)
          ELSE /\ OneError(d.key, "invalid_format")
               /\ ErrorsOf(d.key)[1].expected = Some(RegexOf(d.value))
               /\ ErrorsOf(d.key)[1].received = RawOf(d.key)
               /\ ~HasParsed(d.key)

\* the format regex:( does not compile: the value is reported, not passed
C13_Witness ==
    /\ Returned
    /\ \E d \in Declared :
         /\ ReachesRegexFormat(d)
         /\ RegexOf(d.value) = <<"(">>
         /\ OneError(d.key, "invalid_format")
         /\ ErrorsOf(d.key)[1].expected = None

\* the spec declares a pattern
HasPattern(spec) == spec.pattern # None /\ Get(spec.pattern) # <<>>

\* the schema with the pattern of the variable `name` removed
WithoutPattern(vs, name) ==
    [i \in 1..Len(vs) |->
       IF vs[i].key = name THEN Entry(name, [vs[i].value EXCEPT !.pattern = None])
       ELSE vs[i]]

\* the raw value of the variable passed every check before the pattern check
ReachesPattern(d) ==
    /\ Present(d)
    /\ \A k \in 1..4 : ~FailsCheck(CheckOrder[k], Get(RawOf(d.key)), d.value)

\* C14: with a pattern that compiles, a raw value that passed the earlier
\* checks is accepted (no error, parsed as the coerced value) iff it matches,
\* and a mismatch is the single error invalid_format; with a pattern that
\* does not compile the result is that of the schema without the pattern
C14_CustomPattern ==
    Returned =>
      \A d \in Declared :
        HasPattern(d.value) =>
          IF ~RegExpCompiles(Get(d.value.pattern))
          THEN Get(result) = validate(WithoutPattern(variables, d.key), env, strict)
          ELSE ReachesPattern(d) =>
                 IF RegExpTest(Get(d.value.pattern), Get(RawOf(d.key)))
                 THEN /\ ErrorsOf(d.key) = <<>>
                      /\ HasParsed(d.key)
                      /\ ParsedOf(d.key)
                           = coerceValue(Get(RawOf(d.key)), d.value.type).value
                 ELSE /\ OneError(d.key, "invalid_format")
                      /\ ErrorsOf(d.key)[1].expected = d.value.pattern
                      /\ ~HasParsed(d.key)

\* the pattern ( does not compile and the value is parsed all the same
C14_Witness ==
    /\ Returned
    /\ \E d \in Declared :
         /\ d.value.pattern = Some(<<"(">>)
         /\ ReachesPattern(d)
         /\ HasParsed(d.key)

\* the format is none of the eleven built-in names and does not begin with regex:
UnknownFormat(spec) ==
    /\ spec.format # None
    /\ Get(spec.format) \notin FormatNames
    /\ ~StartsWith(Get(spec.format), <<"r", "e", "g", "e", "x", ":">>)

\* C15: for a format that is none of the eleven built-in names and does not
\* begin with regex: the format step is a no-op: validate returns, and its
\* result is that of the schema without the format
C15_UnknownFormatIsNoOp ==
    pc = "validated" =>
      \A d \in Declared :
        UnknownFormat(d.value) =>
          /\ ~Get(result).threw
          /\ Get(result) = validate(WithoutFormat(variables, d.key), env, strict)

\* the position in seq of the entry of the variable `name`
PositionOf(seq, name) == CHOOSE k \in 1..Len(seq) : seq[k].variable = name

\* the default_applied warnings of the result
DefaultWarnings ==
    SelectSeq(Get(result).warnings, LAMBDA w : w.type = "default_applied")

HasDefaultWarning(name) ==
    \E k \in 1..Len(DefaultWarnings) : DefaultWarnings[k].variable = name

\* C16: the variables are processed in declaration order, whatever their
\* names: of two declared variables that both have an error the one declared
\* first has its error first in errors, and likewise for their
\* default_applied warnings in warnings
C16_DeclarationOrder ==
    Returned =>
      \A i, j \in 1..Len(variables) :
        i < j =>
          /\ (ErrorsOf(variables[i].key) # <<>> /\ ErrorsOf(variables[j].key) # <<>>) =>
               PositionOf(Get(result).errors, variables[i].key)
                 < PositionOf(Get(result).errors, variables[j].key)
          /\ (HasDefaultWarning(variables[i].key) /\ HasDefaultWarning(variables[j].key)) =>
               PositionOf(DefaultWarnings, variables[i].key)
                 < PositionOf(DefaultWarnings, variables[j].key)

\* the allow-listed system names
AllowList ==
    {<<"P", "A", "T", "H">>, <<"H", "O", "M", "E">>, <<"U", "S", "E", "R">>,
     <<"S", "H", "E", "L", "L">>, <<"T", "E", "R", "M">>, <<"L", "A", "N", "G">>,
     <<"L", "C", "_", "A", "L", "L">>, <<"P", "W", "D">>,
     <<"O", "L", "D", "P", "W", "D">>, <<"H", "O", "S", "T", "N", "A", "M", "E">>,
     <<"L", "O", "G", "N", "A", "M", "E">>, <<"E", "D", "I", "T", "O", "R">>,
     <<"V", "I", "S", "U", "A", "L">>, <<"_">>, <<"S", "H", "L", "V", "L">>,
     <<"X", "D", "G", "_">>, <<"S", "S", "H", "_">>, <<"G", "P", "G", "_">>,
     <<"D", "I", "S", "P", "L", "A", "Y">>,
     <<"C", "O", "L", "O", "R", "T", "E", "R", "M">>}

\* the key begins with an allow-listed name
AllowListed(k) ==
    \E p \in AllowList : Len(p) <= Len(k) /\ SubSeq(k, 1, Len(p)) = p

\* the unused warnings of a key
UnusedOf(k) ==
    SelectSeq(Get(result).warnings, LAMBDA w : w.variable = k /\ w.type = "unused")

\* C17: with strict set there is exactly one unused warning for each key of
\* the environment that is not declared and does not begin with an
\* allow-listed name, and none for any other key; without strict there is no
\* unused warning
C17_UnusedWarnings ==
    Returned =>
      /\ \A i \in 1..Len(env) :
           Len(UnusedOf(env[i].key))
             = IF strict /\ ~HasKey(variables, env[i].key) /\ ~AllowListed(env[i].key)
               THEN 1 ELSE 0
      /\ \A k \in 1..Len(Get(result).warnings) :
           Get(result).warnings[k].type = "unused" =>
             strict /\ HasKey(env, Get(result).warnings[k].variable)

\* strict: EXTRA and PAT are warned about, PATH_X, HOME and _X are not
C17_Witness ==
    /\ Returned
    /\ strict
    /\ HasKey(env, <<"P", "A", "T", "H", "_", "X">>)
    /\ HasKey(env, <<"_", "X">>)
    /\ Len(UnusedOf(<<"E", "X", "T", "R", "A">>)) = 1
    /\ Len(UnusedOf(<<"P", "A", "T">>)) = 1
    /\ UnusedOf(<<"P", "A", "T", "H", "_", "X">>) = <<>>
    /\ UnusedOf(<<"_", "X">>) = <<>>

\* the call returned b
Answers(r, b) == ~r.threw /\ r.valid = b

\* C18: isValid(schema, env) returns exactly validate(schema, env).valid, and
\* that value is validate(schema, env, {strict: true}).valid (a call that
\* throws does so in all three)
C18_IsValidIsValid ==
    /\ pc = "answered" =>
         IF Get(answer).threw
         THEN validate(variables, env, FALSE).threw /\ validate(variables, env, TRUE).threw
         ELSE /\ Answers(validate(variables, env, FALSE), Get(answer).value)
              /\ Answers(validate(variables, env, TRUE), Get(answer).value)
    /\ pc = "validated" =>
         IF Get(result).threw
         THEN validate(variables, env, ~strict).threw
         ELSE Answers(validate(variables, env, ~strict), Get(result).valid)

\* isValid answers true for inputs on which strict validation has warnings
C18_Witness ==
    /\ pc = "answered"
    /\ ~Get(answer).threw
    /\ Get(answer).value
    /\ validate(variables, env, TRUE).warnings # <<>>
    /\ validate(variables, env, TRUE).warnings # validate(variables, env, FALSE).warnings

ErrorKinds == {"missing", "invalid_type", "invalid_format", "invalid_enum", "invalid_range"}

\* C20: validate never throws: for every schema and environment the call
\* returns a result, and every error in it is of one of the five kinds
C20_NeverThrows ==
    pc = "validated" =>
      /\ ~Get(result).threw
      /\ \A k \in 1..Len(Get(result).errors) : Get(result).errors[k].type \in ErrorKinds

\* the raw value of the variable is a non-empty string that fails no check
PassesEveryCheck(d) ==
    /\ Present(d)
    /\ \A k \in 1..Len(CheckOrder) : ~FailsCheck(CheckOrder[k], Get(RawOf(d.key)), d.value)

\* the raw value is absent or empty and the spec declares a default
DefaultIsApplied(d) == Absent(RawOf(d.key)) /\ d.value.default # None

\* C21: parsed has a key X iff X is declared, has no error, and either had a
\* non-empty raw value that passed every check (parsed[X] is the coerced
\* value) or had its default applied (parsed[X] is the default); no variable
\* is both in errors and in parsed, and every key of parsed is declared
C21_ParsedExactly ==
    Returned =>
      /\ \A d \in Declared :
           /\ HasParsed(d.key)
                <=> (ErrorsOf(d.key) = <<>> /\ (PassesEveryCheck(d) \/ DefaultIsApplied(d)))
           /\ (HasParsed(d.key) /\ Present(d)) =>
                ParsedOf(d.key) = coerceValue(Get(RawOf(d.key)), d.value.type).value
           /\ (HasParsed(d.key) /\ ~Present(d)) => ParsedOf(d.key) = Get(d.value.default)
           /\ ~(ErrorsOf(d.key) # <<>> /\ HasParsed(d.key))
      /\ \A i \in 1..Len(Get(result).parsed) : HasKey(variables, Get(result).parsed[i].key)
      /\ \A i, j \in 1..Len(Get(result).parsed) :
           Get(result).parsed[i].key = Get(result).parsed[j].key => i = j

\* two declared variables, one with an error and a raw value, one parsed, and
\* an environment key that is not declared: parsed has the one key
C21_Witness ==
    /\ Returned
    /\ \E i \in 1..Len(env) : env[i].value # None /\ ~HasKey(variables, env[i].key)
    /\ \E d1, d2 \in Declared :
         /\ ErrorsOf(d1.key) # <<>> /\ ~HasParsed(d1.key)
         /\ PassesEveryCheck(d2) /\ HasParsed(d2.key)
    /\ Len(Get(result).parsed) = 1

\* the definitions of the variables in the schema file that was loaded
FileDefinitions ==
    Get(files[Get(findSchemaFile(files, options.schemaPath))].value.variables)

\* C22: a definition that does not set required is treated as required = true:
\* when it has no default and the raw value is absent or empty, the result has
\* the single error missing for the variable and valid = false
C22_RequiredByDefault ==
    (Returned /\ SchemaLoaded(files, options)) =>
      \A i \in 1..Len(FileDefinitions) :
        (/\ FileDefinitions[i].value.required = None
         /\ FileDefinitions[i].value.default = None
         /\ Absent(RawOf(FileDefinitions[i].key))) =>
          /\ OneError(FileDefinitions[i].key, "missing")
          /\ ~HasParsed(FileDefinitions[i].key)
          /\ ~Get(result).valid

\* a schema file whose only definition is {type: string} and an env file that
\* gives the variable the empty string
C22_Witness ==
    /\ Returned
    /\ SchemaLoaded(files, options)
    /\ Len(FileDefinitions) = 1
    /\ FileDefinitions[1].value.required = None
    /\ FileDefinitions[1].value.default = None
    /\ RawOf(FileDefinitions[1].key) = Some(<<>>)
    /\ OneError(FileDefinitions[1].key, "missing")
    /\ ~Get(result).valid

IsPortNumber(x) ==
    /\ x.kind = "fin"
    /\ x.e \in 0..4
    /\ x.m * Pow10(x.e) \in 1..65535

\* the variable has the format port and its raw value reaches the format step
ReachesPortFormat(d) ==
    /\ Present(d)
    /\ d.value.format = Some(<<"p", "o", "r", "t">>)
    /\ ~FailsCheck("coercion", Get(RawOf(d.key)), d.value)
    /\ ~FailsCheck("enum", Get(RawOf(d.key)), d.value)

\* C24: the format port is checked on the raw string whatever the declared
\* type is: a raw value that parses as an integer n with 1 <= n <= 65535
\* passes the format step (the result is that of the schema without the
\* format), and every other raw value has the single error invalid_format
\* with expected = port and received = the raw value
C24_PortFormat ==
    Returned =>
      \A d \in Declared :
        ReachesPortFormat(d) =>
          IF IsPortNumber(StringToNumber(Get(RawOf(d.key))))
          THEN Get(result) = validate(WithoutFormat(variables, d.key), env, strict)
          ELSE /\ OneError(d.key, "invalid_format")
               /\ ErrorsOf(d.key)[1].expected = Some(<<"p", "o", "r", "t">>)
               /\ ErrorsOf(d.key)[1].received = RawOf(d.key)
               /\ ~HasParsed(d.key)

\* a string variable with format port: 65535 is parsed, as the string
C24_Witness ==
    /\ Returned
    /\ \E d \in Declared :
         /\ ReachesPortFormat(d)
         /\ d.value.type = "string"
         /\ RawOf(d.key) = Some(<<"6", "5", "5", "3", "5">>)
         /\ ParsedOf(d.key) = StrVal(<<"6", "5", "5", "3", "5">>)

\* the words inferType takes for booleans
BooleanWords ==
    {<<"t", "r", "u", "e">>, <<"f", "a", "l", "s", "e">>, <<"1">>, <<"0">>,
     <<"y", "e", "s">>, <<"n", "o">>}

\* v is the word w in any mix of upper and lower case
IsWordAnyCase(v, w) ==
    /\ Len(v) = Len(w)
    /\ \A k \in 1..Len(w) : v[k] = w[k] \/ (IsUpper(v[k]) /\ LowerChar(v[k]) = w[k])

\* the positions of the dots of v
DotsOf(v) == {k \in 1..Len(v) : v[k] = "."}

\* digits with at most one dot, which is neither first nor last
IsUnsignedDecimal(u) ==
    /\ u # <<>>
    /\ \A k \in 1..Len(u) : u[k] \in Digits \cup {"."}
    /\ Cardinality(DotsOf(u)) <= 1
    /\ u[1] # "." /\ u[Len(u)] # "."

\* an optional minus sign, digits and an optional fractional part
IsDecimalText(v) ==
    IF v # <<>> /\ v[1] = "-" THEN IsUnsignedDecimal(Tail(v)) ELSE IsUnsignedDecimal(v)

\* C25: inferType returns boolean exactly for true, false, 1, 0, yes and no in
\* any case; otherwise number exactly for an optional minus sign, digits and
\* an optional fractional part; otherwise string, the empty string included
C25_InferTypePrecedence ==
    pc = "typed" =>
      Get(answer) = IF \E w \in BooleanWords : IsWordAnyCase(value, w) THEN "boolean"
                    ELSE IF IsDecimalText(value) THEN "number"
                    ELSE "string"

\* inferType("1") is boolean although 1 is a decimal text
C25_Witness ==
    /\ pc = "typed"
    /\ value = <<"1">>
    /\ IsDecimalText(value)
    /\ Get(answer) = "boolean"

\* the result is the one validateEnv gives when it has no schema: invalid, the
\* single error missing for _schema, no warnings and nothing parsed
IsSchemaFailure(r) ==
    /\ ~r.threw
    /\ ~r.valid
    /\ Len(r.errors) = 1
    /\ r.errors[1].variable = <<"_", "s", "c", "h", "e", "m", "a">>
    /\ r.errors[1].type = "missing"
    /\ r.warnings = <<>>
    /\ r.parsed = <<>>

\* the exception is an Error whose message lists every error of r, in order,
\* as variable: message
ListsErrorsOf(exception, r) ==
    /\ exception.name = "Error"
    /\ Len(exception.lines) = Len(r.errors)
    /\ \A k \in 1..Len(r.errors) :
         /\ exception.lines[k].variable = r.errors[k].variable
         /\ exception.lines[k].message = r.errors[k].message

\* C26: guardEnv throws an Error that lists each error as variable: message
\* exactly when validateEnv's result is invalid, and otherwise returns the
\* result's parsed (an exception thrown out of validateEnv leaves guardEnv
\* too); without a schema file, or with one that fails to load, validateEnv
\* returns valid = false with the single error missing for _schema, no
\* warnings and nothing parsed, and so guardEnv throws
C26_GuardThrowsIffInvalid ==
    /\ pc = "guarded" =>
         IF validateEnv(files, processEnv, options).threw
         THEN Get(answer).threw /\ Get(Get(answer).exception).name # "Error"
         ELSE /\ Get(answer).threw <=> ~validateEnv(files, processEnv, options).valid
              /\ Get(answer).threw =>
                   ListsErrorsOf(Get(Get(answer).exception),
                                 validateEnv(files, processEnv, options))
              /\ ~Get(answer).threw =>
                   Get(answer).value = Some(validateEnv(files, processEnv, options).parsed)
    /\ (pc \in {"validated", "guarded"} /\ ~SchemaLoaded(files, options)) =>
         /\ IsSchemaFailure(Get(result))
         /\ pc = "guarded" => Get(answer).threw

\* the only schema file is a schema.yaml that the options name: guardEnv throws
\* an Error of one line, for _schema
C26_Witness ==
    /\ pc = "guarded"
    /\ findSchemaFile(files, options.schemaPath) # None
    /\ ~SchemaLoaded(files, options)
    /\ Get(answer).threw
    /\ Len(Get(Get(answer).exception).lines) = 1
    /\ Get(Get(answer).exception).lines[1].variable = <<"_", "s", "c", "h", "e", "m", "a">>

\* the schema with every check of the variable `name` removed: its format,
\* enum, pattern, min, max, minLength and maxLength
WithoutChecks(vs, name) ==
    [i \in 1..Len(vs) |->
       IF vs[i].key = name
       THEN Entry(name, [vs[i].value EXCEPT !.format = None, !.enum = None,
                                            !.pattern = None, !.min = None, !.max = None,
                                            !.minLength = None, !.maxLength = None])
       ELSE vs[i]]

\* C27: when the raw value is absent or empty and the spec has a default, the
\* default is parsed as it is and no check is run on it: whatever its type and
\* whatever the spec's enum, format, range, length and pattern are, the
\* variable has no error, and the result is that of the schema without them
C27_DefaultUnchecked ==
    Returned =>
      \A d \in Declared :
        (Absent(RawOf(d.key)) /\ d.value.default # None) =>
          /\ ErrorsOf(d.key) = <<>>
          /\ HasParsed(d.key)
          /\ ParsedOf(d.key) = Get(d.value.default)
          /\ Get(result) = validate(WithoutChecks(variables, d.key), env, strict)
          /\ Len(variables) = 1 => Get(result).valid

\* a number variable with enum, range and pattern whose default is the string
\* x: the result is valid and x is parsed
C27_Witness ==
    /\ Returned
    /\ Get(result).valid
    /\ \E d \in Declared :
         /\ Absent(RawOf(d.key))
         /\ d.value.type = "number"
         /\ d.value.default = Some(StrVal(<<"x">>))
         /\ d.value.enum # None /\ d.value.min # None /\ d.value.pattern # None
         /\ ParsedOf(d.key) = StrVal(<<"x">>)

\* what the result r holds for the variable `name`: its errors, its warnings
\* other than unused, and its entry of parsed
HeldFor(r, name) ==
    [errors   |-> SelectSeq(r.errors, LAMBDA e : e.variable = name),
     warnings |-> SelectSeq(r.warnings, LAMBDA w : w.variable = name /\ w.type # "unused"),
     parsed   |-> IF HasKey(r.parsed, name) THEN Some(Lookup(r.parsed, name)) ELSE None]

\* the call with the variable d alone: its spec the only one of the schema, its
\* raw value the only entry of the environment
Alone(d) == validate(<<d>>, EnvEntry(d.key, RawOf(d.key)), FALSE)

\* C28: the error, the default_applied warning and the parsed value of a
\* declared variable depend only on its spec and its raw value: in every
\* result they are those of the call with that variable alone, whatever the
\* other variables, the other environment entries and strict are
C28_OutcomeIsLocal ==
    Returned =>
      \A d \in Declared : HeldFor(Get(result), d.key) = HeldFor(Alone(d), d.key)

\* a variable that is parsed, declared after one that has an error, in a
\* strict call with keys that are not declared
C28_Witness ==
    /\ Returned
    /\ strict
    /\ Len(variables) = 2
    /\ Len(env) > 2
    /\ ErrorsOf(variables[1].key) # <<>>
    /\ HasParsed(variables[2].key)
    /\ Get(result) # Alone(variables[2])
    /\ HeldFor(Get(result), variables[2].key) = HeldFor(Alone(variables[2]), variables[2].key)

\* C29: the schema inferred from an environment of string values accepts that
\* environment: validate({variables: inferSchemaFromEnv(env)}, env) returns
\* valid = true
C29_InferredSchemaAccepts ==
    (pc = "validated" /\ variables = inferSchemaFromEnv(env)) =>
      ~Get(result).threw /\ Get(result).valid

\* the keys of the environment, in its key order, that are not declared and do
\* not begin with an allow-listed name
UnusedKeys ==
    SelectSeq(ObjectKeys(env), LAMBDA k : ~HasKey(variables, k) /\ ~AllowListed(k))

\* the warnings ws are unused warnings, one for each of the keys, in their order
AreUnusedFor(ws, keys) ==
    /\ Len(ws) = Len(keys)
    /\ \A k \in 1..Len(ws) : ws[k].type = "unused" /\ ws[k].variable = keys[k]

\* s is the strict result and n the result without strict of the same call
StrictAddsUnused(s, n) ==
    /\ s.errors = n.errors
    /\ s.parsed = n.parsed
    /\ s.valid = n.valid
    /\ Len(s.warnings) = Len(n.warnings) + Len(UnusedKeys)
    /\ SubSeq(s.warnings, 1, Len(n.warnings)) = n.warnings
    /\ AreUnusedFor(SubSeq(s.warnings, Len(n.warnings) + 1, Len(s.warnings)), UnusedKeys)
    /\ \A k \in 1..Len(n.warnings) : n.warnings[k].type # "unused"

\* C30: for the same schema and environment the result with strict and the
\* result without have the same errors, parsed and valid, and the strict
\* warnings are the warnings without strict, in their order, followed by the
\* unused warnings in the environment's key order (a call that throws does so
\* with and without strict)
C30_StrictOnlyAddsUnused ==
    pc = "validated" =>
      IF Get(result).threw THEN validate(variables, env, ~strict).threw
      ELSE /\ ~validate(variables, env, ~strict).threw
           /\ IF strict THEN StrictAddsUnused(Get(result), validate(variables, env, FALSE))
              ELSE StrictAddsUnused(validate(variables, env, TRUE), Get(result))

\* a strict result with an error, a default_applied warning and after it the
\* unused warnings for 7 and EXTRA, in the environment's key order
C30_Witness ==
    /\ Returned
    /\ strict
    /\ Get(result).errors # <<>>
    /\ Len(Get(result).warnings) = 3
    /\ Get(result).warnings[1].type = "default_applied"
    /\ Get(result).warnings[2].variable = <<"7">>
    /\ Get(result).warnings[3].variable = <<"E", "X", "T", "R", "A">>
    /\ validate(variables, env, FALSE).warnings = <<Get(result).warnings[1]>>

====
